---- MODULE Spec2Model ----
(***************************************************************************)
(* The IMAP4 command-line parser of imapserver/parse.go.                   *)
(*                                                                         *)
(* A line is a sequence of bytes (0..255).  Offsets are 0-based as in the  *)
(* source: the Go slice s[a:b] is Slice(s, a, b).  Numbers that need 32 or *)
(* 64 bits are kept as four 16-bit limbs, least significant first, so that *)
(* the width checks of strconv are computed and not assumed.               *)
(***************************************************************************)
EXTENDS Integers, Sequences, FiniteSets, TLC

VARIABLES p, ret, given, stack

vars == <<p, ret, given, stack>>

(***************************************************************************)
(* Bytes and strings                                                       *)
(***************************************************************************)

ch == [nul |-> 0, lf |-> 10, cr |-> 13, sp |-> 32, dquote |-> 34,
       dollar |-> 36, percent |-> 37, amp |-> 38, lparen |-> 40,
       rparen |-> 41,
       star |-> 42, plus |-> 43, comma |-> 44, minus |-> 45, dot |-> 46,
       d0 |-> 48, d9 |-> 57, colon |-> 58, lt |-> 60, gt |-> 62,
       A |-> 65, Z |-> 90, lbrack |-> 91, bslash |-> 92, rbrack |-> 93,
       underscore |-> 95, a |-> 97, z |-> 122, lbrace |-> 123,
       rbrace |-> 125, tilde |-> 126]

\* s[a:b] of Go, for 0 <= a <= b <= len(s).
Slice(s, a, b) == SubSeq(s, a + 1, b)

\* s[a:] of Go.
From(s, a) == SubSeq(s, a + 1, Len(s))

\* F applied to the value of e: e is evaluated once and F sees its value.
Then(e, F(_)) == CHOOSE v \in {F(x) : x \in {e}} : TRUE

\* strings.HasPrefix(s, prefix)
HasPrefix(s, prefix) ==
    /\ Len(prefix) <= Len(s)
    /\ SubSeq(s, 1, Len(prefix)) = prefix

\* strings.HasSuffix(s, suffix)
HasSuffix(s, suffix) ==
    /\ Len(suffix) <= Len(s)
    /\ SubSeq(s, Len(s) - Len(suffix) + 1, Len(s)) = suffix

\* strings.TrimSuffix(s, suffix)
TrimSuffix(s, suffix) ==
    IF HasSuffix(s, suffix) THEN SubSeq(s, 1, Len(s) - Len(suffix)) ELSE s

IsDigit(c) == c >= ch.d0 /\ c <= ch.d9

(***************************************************************************)
(* Character classes, parse.go:14-47                                       *)
(***************************************************************************)

\* charRange: first, then every rune up to last.
charRange(first, last) == {first} \cup (first..last)

charRemove(s, remove) == s \ remove

listWildcards == {ch.percent, ch.star}
char == charRange(1, 127)
ctl == charRange(1, 25)
quotedSpecials == {ch.dquote, ch.bslash}
respSpecials == {ch.rbrack}
atomChar ==
    charRemove(char, {ch.lparen, ch.rparen, ch.lbrace, ch.sp} \cup ctl
                     \cup listWildcards \cup quotedSpecials \cup respSpecials)
astringChar == atomChar \cup respSpecials

contains(s, c) == c \in s

(***************************************************************************)
(* Numbers: strconv.ParseUint, strconv.ParseInt and %d on 16-bit limbs     *)
(***************************************************************************)

Base == 256 * 256

Zero == <<0, 0, 0, 0>>

\* The number k, for 0 <= k < 2^31.
NumOf(k) == <<k % Base, k \div Base, 0, 0>>

\* n as a model integer, for n < 2^31.
ToInt(n) == n[1] + n[2] * Base

FitsInt(n) == n[3] = 0 /\ n[4] = 0 /\ n[2] < 32768

\* a < b
NumLess(a, b) ==
    \/ a[4] < b[4]
    \/ a[4] = b[4] /\ a[3] < b[3]
    \/ a[4] = b[4] /\ a[3] = b[3] /\ a[2] < b[2]
    \/ a[4] = b[4] /\ a[3] = b[3] /\ a[2] = b[2] /\ a[1] < b[1]

\* n*10 + d in 64 bits; over when the result needs more than 64 bits.
MulAdd10(n, d) ==
    Then(n[1] * 10 + d, LAMBDA t1 :
    Then(n[2] * 10 + t1 \div Base, LAMBDA t2 :
    Then(n[3] * 10 + t2 \div Base, LAMBDA t3 :
    Then(n[4] * 10 + t3 \div Base, LAMBDA t4 :
      [n |-> <<t1 % Base, t2 % Base, t3 % Base, t4 % Base>>,
       over |-> t4 \div Base > 0]))))

\* The digits of s as an unsigned 64-bit number, ok = FALSE on a byte that
\* is no digit or on overflow of 64 bits.
RECURSIVE Accumulate(_, _, _)
Accumulate(s, i, acc) ==
    IF i > Len(s) THEN [ok |-> TRUE, n |-> acc]
    ELSE IF ~IsDigit(s[i]) THEN [ok |-> FALSE, n |-> Zero]
    ELSE Then(MulAdd10(acc, s[i] - ch.d0), LAMBDA m :
           IF m.over THEN [ok |-> FALSE, n |-> Zero]
           ELSE Accumulate(s, i + 1, m.n))

\* strconv.ParseUint(s, 10, bitSize) for bitSize 32 or 64.
ParseUint(s, bitSize) ==
    IF s = <<>> THEN [ok |-> FALSE, n |-> Zero]
    ELSE Then(Accumulate(s, 1, Zero), LAMBDA r :
           IF ~r.ok THEN r
           ELSE IF bitSize = 32 /\ (r.n[3] # 0 \/ r.n[4] # 0)
                THEN [ok |-> FALSE, n |-> Zero]
           ELSE r)

\* strconv.ParseInt(s, 10, bitSize) for bitSize 32 or 64: an optional sign,
\* then the magnitude, which must be below 2^(bitSize-1) (or equal to it
\* for a negative number).
ParseInt(s, bitSize) ==
    IF s = <<>> THEN [ok |-> FALSE, neg |-> FALSE, n |-> Zero]
    ELSE Then(ParseUint(IF s[1] \in {ch.plus, ch.minus} THEN Tail(s) ELSE s, 64),
              LAMBDA un :
           LET neg == s[1] = ch.minus
               cutoff == IF bitSize = 32 THEN <<0, 32768, 0, 0>>
                         ELSE <<0, 0, 0, 32768>>
           IN  IF ~un.ok THEN [ok |-> FALSE, neg |-> FALSE, n |-> Zero]
               ELSE IF ~neg /\ ~NumLess(un.n, cutoff)
                    THEN [ok |-> FALSE, neg |-> FALSE, n |-> Zero]
               ELSE IF neg /\ NumLess(cutoff, un.n)
                    THEN [ok |-> FALSE, neg |-> FALSE, n |-> Zero]
               ELSE [ok |-> TRUE, neg |-> neg /\ un.n # Zero, n |-> un.n])

\* n divided by 10: quotient and remainder.
DivMod10(n) ==
    Then((n[4] % 10) * Base + n[3], LAMBDA t3 :
    Then((t3 % 10) * Base + n[2], LAMBDA t2 :
    Then((t2 % 10) * Base + n[1], LAMBDA t1 :
      [q |-> <<t1 \div 10, t2 \div 10, t3 \div 10, n[4] \div 10>>,
       r |-> t1 % 10])))

\* The decimal digits of a non-negative number, as %d prints them.
RECURSIVE FormatUint(_)
FormatUint(n) ==
    Then(DivMod10(n), LAMBDA d :
      IF d.q = Zero THEN <<ch.d0 + d.r>>
      ELSE Append(FormatUint(d.q), ch.d0 + d.r))

(***************************************************************************)
(* The parser and its connection                                           *)
(***************************************************************************)

\* A toUpper that takes every byte from "a" on for a lower case letter.
toUpperFromA(s) ==
    [i \in 1..Len(s) |-> IF s[i] >= ch.a THEN s[i] - 32 ELSE s[i]]

\* toUpper upper cases bytes that are a-z and keeps every other byte.
toUpper(s) ==
    [i \in 1..Len(s) |-> IF s[i] >= ch.a /\ s[i] <= ch.z THEN s[i] - 32 ELSE s[i]]

newParser(s, conn) ==
    [orig |-> s, upper |-> toUpper(s), o |-> 0, contexts |-> <<>>, conn |-> conn]

NoErr == [kind |-> "none", line |-> <<>>, code |-> "", msg |-> "",
          detailed |-> FALSE, remaining |-> <<>>, contexts |-> <<>>]

\* The result of a parser that raises: the parser as it is left, the error
\* (NoErr when it returned) and the value.
Ok(q, v) == [p |-> q, err |-> NoErr, v |-> v]

Failed(r) == r.err.kind # "none"

\* r when r raised, and else F(r): the steps after a call that raises run
\* only when it returned.
Do(r, F(_)) == CHOOSE v \in {IF Failed(x) THEN x ELSE F(x) : x \in {r}} : TRUE

\* xerrorf: a syntax error with the remaining input and the contexts; the
\* message sent to the client has them too when the connection has an account.
xerrorf(q, msg) ==
    [p |-> q,
     err |-> [kind |-> "syntax", line |-> <<>>, code |-> "", msg |-> msg,
              detailed |-> q.conn.account,
              remaining |-> From(q.orig, q.o), contexts |-> q.contexts],
     v |-> <<>>]

\* context pushes a label; the function it returns pops it.
context(q, s) == [q EXCEPT !.contexts = Append(@, s)]

uncontext(r) == [r EXCEPT !.p.contexts = SubSeq(@, 1, Len(@) - 1)]

empty(q) == q.o = Len(q.upper)

xempty(q) == IF ~empty(q) THEN xerrorf(q, "leftover data") ELSE Ok(q, <<>>)

hasPrefix(q, s) == HasPrefix(From(q.upper, q.o), s)

take(q, s) ==
    IF ~hasPrefix(q, s) THEN [p |-> q, ok |-> FALSE]
    ELSE [p |-> [q EXCEPT !.o = @ + Len(s)], ok |-> TRUE]

xtake(q, s) ==
    Then(take(q, s), LAMBDA r :
      IF ~r.ok THEN xerrorf(q, "expected %s") ELSE Ok(r.p, <<>>))

xnonempty(q) == IF empty(q) THEN xerrorf(q, "unexpected end") ELSE Ok(q, <<>>)

xtakeall(q) == Ok([q EXCEPT !.o = Len(q.orig)], From(q.orig, q.o))

\* An xtaken that advances without a look at the length of the line.
xtakenUnchecked(q, n) ==
    Ok([q EXCEPT !.o = @ + n],
       IF q.o + n > Len(q.orig) THEN From(q.orig, q.o)
       ELSE Slice(q.orig, q.o, q.o + n))

xtaken(q, n) ==
    IF q.o + n > Len(q.orig) THEN xerrorf(q, "not enough data")
    ELSE Ok([q EXCEPT !.o = @ + n], Slice(q.orig, q.o, q.o + n))

xtake1n(q, n) ==
    IF n = 0 THEN xerrorf(q, "expected chars from %s") ELSE xtaken(q, n)

\* The number of bytes of s from offset i on that are taken by a loop which
\* stops at the first byte it rejects: the first byte must be in set0, each
\* later one in set1 (k counts the bytes taken so far).
RECURSIVE Run(_, _, _, _, _)
Run(s, i, k, set0, set1) ==
    IF i + k >= Len(s) THEN k
    ELSE IF s[i + k + 1] \notin (IF k = 0 THEN set0 ELSE set1) THEN k
    ELSE Run(s, i, k + 1, set0, set1)

\* xtake1fn with fn(i, c) given as the bytes it accepts at i = 0 and at i > 0.
xtake1fn(q, set0, set1) ==
    Then(Run(q.upper, q.o, 0, set0, set1), LAMBDA n :
      IF n = 0 THEN xerrorf(q, "expected at least one character")
      ELSE Ok([q EXCEPT !.o = @ + n], Slice(q.upper, q.o, q.o + n)))

\* The end of a loop over the bytes from the offset on that has passed over
\* n of them: xtake1n(n) when it stopped at a byte, xtakeall at the end.
taken1n(q, n) ==
    IF q.o + n < Len(q.orig) THEN xtake1n(q, n) ELSE xtakeall(q)

\* An xtakechars that takes the run of bytes of s also when it is empty.
xtakecharsOrNone(q, s) ==
    Then(Run(q.orig, q.o, 0, s, s), LAMBDA n :
      Ok([q EXCEPT !.o = @ + n], Slice(q.orig, q.o, q.o + n)))

xtakechars(q, s) ==
    Do(xnonempty(q), LAMBDA e :
      Then(Run(q.orig, q.o, 0, s, s), LAMBDA n : taken1n(q, n)))

peekn(q, n) ==
    IF Len(From(q.upper, q.o)) < n THEN [v |-> <<>>, ok |-> FALSE]
    ELSE [v |-> Slice(q.upper, q.o, q.o + n), ok |-> TRUE]

space(q) == take(q, <<ch.sp>>)

xspace(q) ==
    Then(space(q), LAMBDA r :
      IF ~r.ok THEN xerrorf(q, "expected space") ELSE Ok(r.p, <<>>))

Digits == ch.d0 .. ch.d9

digits(q) ==
    Then(Run(q.upper, q.o, 0, Digits, Digits), LAMBDA n :
      [p |-> [q EXCEPT !.o = @ + n], v |-> Slice(q.upper, q.o, q.o + n)])

\* An nznumber that consumes the digits before it rejects a zero.
nznumberConsuming(q) ==
    Then(digits(q), LAMBDA d :
      IF d.v = <<>> THEN [p |-> q, ok |-> FALSE, v |-> Zero]
      ELSE Then(ParseUint(d.v, 32), LAMBDA n :
             IF ~n.ok THEN [p |-> q, ok |-> FALSE, v |-> Zero]
             ELSE IF n.n = Zero THEN [p |-> d.p, ok |-> FALSE, v |-> Zero]
             ELSE [p |-> d.p, ok |-> TRUE, v |-> n.n]))

NoNumber(q) == [p |-> q, ok |-> FALSE, v |-> Zero]

nznumber(q) ==
    Then(q.o + Run(q.upper, q.o, 0, Digits, Digits), LAMBDA o :
      IF o = q.o THEN NoNumber(q)
      ELSE Then(ParseUint(Slice(q.upper, q.o, o), 32), LAMBDA n :
             IF ~n.ok THEN NoNumber(q)
             ELSE IF n.n = Zero THEN NoNumber(q)
             ELSE [p |-> [q EXCEPT !.o = o], ok |-> TRUE, v |-> n.n]))

xnznumber(q) ==
    Then(nznumber(q), LAMBDA r :
      IF ~r.ok THEN xerrorf(q, "expected non-zero number") ELSE Ok(r.p, r.v))

number(q) ==
    Then(q.o + Run(q.upper, q.o, 0, Digits, Digits), LAMBDA o :
      IF o = q.o THEN NoNumber(q)
      ELSE Then(ParseUint(Slice(q.upper, q.o, o), 32), LAMBDA n :
             IF ~n.ok THEN NoNumber(q)
             ELSE [p |-> [q EXCEPT !.o = o], ok |-> TRUE, v |-> n.n]))

xnumber(q) ==
    Then(number(q), LAMBDA r :
      IF ~r.ok THEN xerrorf(q, "expected number") ELSE Ok(r.p, r.v))

xnumber64(q) ==
    Then(digits(q), LAMBDA s :
      IF s.v = <<>> THEN xerrorf(s.p, "expected number64")
      ELSE Then(ParseInt(s.v, 64), LAMBDA v :
             IF ~v.ok THEN xerrorf(s.p, "parsing number64 %q: %v")
             ELSE Ok(s.p, v.n)))

\* l is a list of upper case words, the first match is returned.
RECURSIVE takelist(_, _)
takelist(q, l) ==
    IF l = <<>> THEN [p |-> q, ok |-> FALSE, v |-> <<>>]
    ELSE Then(take(q, Head(l)), LAMBDA r :
           IF r.ok THEN [p |-> r.p, ok |-> TRUE, v |-> Head(l)]
           ELSE takelist(q, Tail(l)))

xtakelist(q, l) ==
    Then(takelist(q, l), LAMBDA r :
      IF ~r.ok THEN xerrorf(q, "expected one of %s") ELSE Ok(r.p, r.v))

(***************************************************************************)
(* The transport: conn.xreadliteral and conn.readline.  The connection     *)
(* holds the bytes the client has sent after the current line (wire), the  *)
(* calls the parser has made (calls), the continuation prompts sent        *)
(* (prompts) and whether an account is logged in.                          *)
(***************************************************************************)

CRLF == <<ch.cr, ch.lf>>

IoError == [kind |-> "io", line |-> <<>>, code |-> "", msg |-> "transport",
            detailed |-> FALSE, remaining |-> <<>>, contexts |-> <<>>]

\* The offset of the first CRLF of s at or after i, or Len(s) when none.
RECURSIVE IndexCRLF(_, _)
IndexCRLF(s, i) ==
    IF i + 2 > Len(s) THEN Len(s)
    ELSE IF Slice(s, i, i + 2) = CRLF THEN i
    ELSE IndexCRLF(s, i + 1)

\* The connection after a call of the parser is noted.
called(conn, op, size, sync) ==
    [conn EXCEPT !.calls = Append(@, [op |-> op, size |-> size, sync |-> sync,
                                      unread |-> Len(conn.wire)])]

\* read_literal(size, sync): with sync, send the continuation prompt; then
\* read exactly size octets.
xreadliteral(conn, size, sync) ==
    Then([called(conn, "xreadliteral", size, sync)
            EXCEPT !.prompts = IF sync THEN @ + 1 ELSE @], LAMBDA c :
      IF ~FitsInt(size) \/ ToInt(size) > Len(c.wire)
      THEN [conn |-> c, err |-> IoError, v |-> <<>>]
      ELSE [conn |-> [c EXCEPT !.wire = From(@, ToInt(size))],
            err |-> NoErr, v |-> Slice(c.wire, 0, ToInt(size))])

\* read_line: the next command-line fragment up to and including CRLF,
\* returned without the CRLF.
readline(conn, readLiteral) ==
    Then(called(conn, "readline", Zero, FALSE), LAMBDA c :
      Then(IndexCRLF(c.wire, 0), LAMBDA e :
        IF e = Len(c.wire)
        THEN [conn |-> c, err |-> IoError, v |-> <<>>]
        ELSE [conn |-> [c EXCEPT !.wire = From(@, e + 2)],
              err |-> NoErr, v |-> Slice(c.wire, 0, e)]))

(***************************************************************************)
(* Strings and literals                                                    *)
(***************************************************************************)

maxLiteralSize == 100 * 1024

TooBigLine(size, maxSize) ==
    <<42, 32, 66, 89, 69, 32, 91, 65, 76, 69, 82, 84, 93, 32, 77, 97, 120,
      32, 108, 105, 116, 101, 114, 97, 108, 32, 115, 105, 122, 101, 32>>
        \* "* BYE [ALERT] Max literal size "
    \o FormatUint(size)
    \o <<32, 105, 115, 32, 108, 97, 114, 103, 101, 114, 32, 116, 104, 97,
         110, 32, 97, 108, 108, 111, 119, 101, 100, 32>>
        \* " is larger than allowed "
    \o FormatUint(NumOf(maxSize))
    \o <<32, 105, 110, 32, 116, 104, 105, 115, 32, 99, 111, 110, 116, 101,
         120, 116>>
        \* " in this context"

\* A size check that also rejects a size equal to the maximum.
TooBigFromMax(size, maxSize) == maxSize > 0 /\ ~NumLess(size, NumOf(maxSize))

\* The size check of xliteralSize.
TooBig(size, maxSize) == maxSize > 0 /\ NumLess(NumOf(maxSize), size)

\* The error xliteralSize raises for a literal that is too big.
TooBigError(q, size, maxSize) ==
    [p |-> q,
     err |-> [kind |-> "syntax", line |-> TooBigLine(size, maxSize),
              code |-> "TOOBIG", msg |-> "literal too big",
              detailed |-> FALSE, remaining |-> <<>>, contexts |-> <<>>],
     v |-> <<>>]

\* xliteralSize: [~] { number64 [+] } and the end of the line.  The value
\* is the size and whether the literal is synchronising.
xliteralSize(q, maxSize, lit8) ==
    Then(IF lit8 THEN take(q, <<ch.tilde>>).p ELSE q, LAMBDA q1 :
    Do(xtake(q1, <<ch.lbrace>>), LAMBDA r2 :
    Do(xnumber64(r2.p), LAMBDA size :
      IF TooBig(size.v, maxSize) THEN TooBigError(size.p, size.v, maxSize)
      ELSE Then(take(size.p, <<ch.plus>>), LAMBDA plus :
           Do(xtake(plus.p, <<ch.rbrace>>), LAMBDA r5 :
           Do(xempty(r5.p), LAMBDA r6 :
             Ok(r6.p, [size |-> size.v, sync |-> ~plus.ok])))))))

\* The rune that "for i, c := range s" yields at byte offset i: its code
\* point c, its width in bytes, and string(c).  A byte sequence that is no
\* valid UTF-8 yields the replacement character U+FFFD with width 1.
RuneError == [c |-> 65533, size |-> 1, str |-> <<239, 191, 189>>]

Cont(s, i, lo, hi) == i < Len(s) /\ s[i + 1] >= lo /\ s[i + 1] <= hi

DecodeRune(s, i) ==
    LET b0 == s[i + 1]
        lo == IF b0 = 224 THEN 160 ELSE IF b0 = 240 THEN 144 ELSE 128
        hi == IF b0 = 237 THEN 159 ELSE IF b0 = 244 THEN 143 ELSE 191
    IN  IF b0 < 128 THEN [c |-> b0, size |-> 1, str |-> <<b0>>]
        ELSE IF b0 < 194 \/ b0 > 244 THEN RuneError
        ELSE IF b0 < 224
             THEN IF Cont(s, i + 1, 128, 191)
                  THEN [c |-> (b0 - 192) * 64 + (s[i + 2] - 128), size |-> 2,
                        str |-> Slice(s, i, i + 2)]
                  ELSE RuneError
        ELSE IF b0 < 240
             THEN IF Cont(s, i + 1, lo, hi) /\ Cont(s, i + 2, 128, 191)
                  THEN [c |-> (b0 - 224) * 4096 + (s[i + 2] - 128) * 64
                              + (s[i + 3] - 128),
                        size |-> 3, str |-> Slice(s, i, i + 3)]
                  ELSE RuneError
        ELSE IF Cont(s, i + 1, lo, hi) /\ Cont(s, i + 2, 128, 191)
                /\ Cont(s, i + 3, 128, 191)
             THEN [c |-> (b0 - 240) * 262144 + (s[i + 2] - 128) * 4096
                         + (s[i + 3] - 128) * 64 + (s[i + 4] - 128),
                   size |-> 4, str |-> Slice(s, i, i + 4)]
        ELSE RuneError

\* utf8.AppendRune, string(c): the bytes of the rune c, those of U+FFFD
\* for a surrogate half.
EncodeRune(c) ==
    IF c < 128 THEN <<c>>
    ELSE IF c < 2048 THEN <<192 + (c \div 64), 128 + (c % 64)>>
    ELSE IF c >= 55296 /\ c <= 57343 THEN RuneError.str
    ELSE IF c < 65536
         THEN <<224 + (c \div 4096), 128 + ((c \div 64) % 64), 128 + (c % 64)>>
    ELSE <<240 + (c \div 262144), 128 + ((c \div 4096) % 64),
           128 + ((c \div 64) % 64), 128 + (c % 64)>>

\* The runes above ASCII that unicode.ToLower changes, as the ranges
\* <<first, last, stride, delta>>: every rune first, first + stride, ...
\* up to last maps to itself plus delta.
LowerRanges ==
    { <<192, 214, 1, 32>>, <<216, 222, 1, 32>>, <<256, 302, 2, 1>>,
      <<304, 304, 1, -199>>, <<306, 310, 2, 1>>, <<313, 327, 2, 1>>,
      <<330, 374, 2, 1>>, <<376, 376, 1, -121>>, <<377, 381, 2, 1>>,
      <<385, 385, 1, 210>>, <<386, 388, 2, 1>>, <<390, 390, 1, 206>>,
      <<391, 391, 1, 1>>, <<393, 394, 1, 205>>, <<395, 395, 1, 1>>,
      <<398, 398, 1, 79>>, <<399, 399, 1, 202>>, <<400, 400, 1, 203>>,
      <<401, 401, 1, 1>>, <<403, 403, 1, 205>>, <<404, 404, 1, 207>>,
      <<406, 406, 1, 211>>, <<407, 407, 1, 209>>, <<408, 408, 1, 1>>,
      <<412, 412, 1, 211>>, <<413, 413, 1, 213>>, <<415, 415, 1, 214>>,
      <<416, 420, 2, 1>>, <<422, 422, 1, 218>>, <<423, 423, 1, 1>>,
      <<425, 425, 1, 218>>, <<428, 428, 1, 1>>, <<430, 430, 1, 218>>,
      <<431, 431, 1, 1>>, <<433, 434, 1, 217>>, <<435, 437, 2, 1>>,
      <<439, 439, 1, 219>>, <<440, 440, 1, 1>>, <<444, 444, 1, 1>>,
      <<452, 452, 1, 2>>, <<453, 453, 1, 1>>, <<455, 455, 1, 2>>,
      <<456, 456, 1, 1>>, <<458, 458, 1, 2>>, <<459, 475, 2, 1>>,
      <<478, 494, 2, 1>>, <<497, 497, 1, 2>>, <<498, 500, 2, 1>>,
      <<502, 502, 1, -97>>, <<503, 503, 1, -56>>, <<504, 542, 2, 1>>,
      <<544, 544, 1, -130>>, <<546, 562, 2, 1>>, <<570, 570, 1, 10795>>,
      <<571, 571, 1, 1>>, <<573, 573, 1, -163>>, <<574, 574, 1, 10792>>,
      <<577, 577, 1, 1>>, <<579, 579, 1, -195>>, <<580, 580, 1, 69>>,
      <<581, 581, 1, 71>>, <<582, 590, 2, 1>>, <<880, 882, 2, 1>>,
      <<886, 886, 1, 1>>, <<895, 895, 1, 116>>, <<902, 902, 1, 38>>,
      <<904, 906, 1, 37>>, <<908, 908, 1, 64>>, <<910, 911, 1, 63>>,
      <<913, 929, 1, 32>>, <<931, 939, 1, 32>>, <<975, 975, 1, 8>>,
      <<984, 1006, 2, 1>>, <<1012, 1012, 1, -60>>, <<1015, 1015, 1, 1>>,
      <<1017, 1017, 1, -7>>, <<1018, 1018, 1, 1>>, <<1021, 1023, 1, -130>>,
      <<1024, 1039, 1, 80>>, <<1040, 1071, 1, 32>>, <<1120, 1152, 2, 1>>,
      <<1162, 1214, 2, 1>>, <<1216, 1216, 1, 15>>, <<1217, 1229, 2, 1>>,
      <<1232, 1326, 2, 1>>, <<1329, 1366, 1, 48>>, <<4256, 4293, 1, 7264>>,
      <<4295, 4295, 1, 7264>>, <<4301, 4301, 1, 7264>>,
      <<5024, 5103, 1, 38864>>, <<5104, 5109, 1, 8>>,
      <<7312, 7354, 1, -3008>>, <<7357, 7359, 1, -3008>>,
      <<7680, 7828, 2, 1>>, <<7838, 7838, 1, -7615>>, <<7840, 7934, 2, 1>>,
      <<7944, 7951, 1, -8>>, <<7960, 7965, 1, -8>>, <<7976, 7983, 1, -8>>,
      <<7992, 7999, 1, -8>>, <<8008, 8013, 1, -8>>, <<8025, 8031, 2, -8>>,
      <<8040, 8047, 1, -8>>, <<8072, 8079, 1, -8>>, <<8088, 8095, 1, -8>>,
      <<8104, 8111, 1, -8>>, <<8120, 8121, 1, -8>>, <<8122, 8123, 1, -74>>,
      <<8124, 8124, 1, -9>>, <<8136, 8139, 1, -86>>, <<8140, 8140, 1, -9>>,
      <<8152, 8153, 1, -8>>, <<8154, 8155, 1, -100>>, <<8168, 8169, 1, -8>>,
      <<8170, 8171, 1, -112>>, <<8172, 8172, 1, -7>>,
      <<8184, 8185, 1, -128>>, <<8186, 8187, 1, -126>>,
      <<8188, 8188, 1, -9>>, <<8486, 8486, 1, -7517>>,
      <<8490, 8490, 1, -8383>>, <<8491, 8491, 1, -8262>>,
      <<8498, 8498, 1, 28>>, <<8544, 8559, 1, 16>>, <<8579, 8579, 1, 1>>,
      <<9398, 9423, 1, 26>>, <<11264, 11311, 1, 48>>, <<11360, 11360, 1, 1>>,
      <<11362, 11362, 1, -10743>>, <<11363, 11363, 1, -3814>>,
      <<11364, 11364, 1, -10727>>, <<11367, 11371, 2, 1>>,
      <<11373, 11373, 1, -10780>>, <<11374, 11374, 1, -10749>>,
      <<11375, 11375, 1, -10783>>, <<11376, 11376, 1, -10782>>,
      <<11378, 11378, 1, 1>>, <<11381, 11381, 1, 1>>,
      <<11390, 11391, 1, -10815>>, <<11392, 11490, 2, 1>>,
      <<11499, 11501, 2, 1>>, <<11506, 11506, 1, 1>>, <<42560, 42604, 2, 1>>,
      <<42624, 42650, 2, 1>>, <<42786, 42798, 2, 1>>, <<42802, 42862, 2, 1>>,
      <<42873, 42875, 2, 1>>, <<42877, 42877, 1, -35332>>,
      <<42878, 42886, 2, 1>>, <<42891, 42891, 1, 1>>,
      <<42893, 42893, 1, -42280>>, <<42896, 42898, 2, 1>>,
      <<42902, 42920, 2, 1>>, <<42922, 42922, 1, -42308>>,
      <<42923, 42923, 1, -42319>>, <<42924, 42924, 1, -42315>>,
      <<42925, 42925, 1, -42305>>, <<42926, 42926, 1, -42308>>,
      <<42928, 42928, 1, -42258>>, <<42929, 42929, 1, -42282>>,
      <<42930, 42930, 1, -42261>>, <<42931, 42931, 1, 928>>,
      <<42932, 42946, 2, 1>>, <<42948, 42948, 1, -48>>,
      <<42949, 42949, 1, -42307>>, <<42950, 42950, 1, -35384>>,
      <<42951, 42953, 2, 1>>, <<42960, 42960, 1, 1>>, <<42966, 42968, 2, 1>>,
      <<42997, 42997, 1, 1>>, <<65313, 65338, 1, 32>>,
      <<66560, 66599, 1, 40>>, <<66736, 66771, 1, 40>>,
      <<66928, 66964, 2, 39>>, <<66929, 66937, 2, 39>>,
      <<66941, 66953, 2, 39>>, <<66957, 66961, 2, 39>>,
      <<66965, 66965, 1, 39>>, <<68736, 68786, 1, 64>>,
      <<71840, 71871, 1, 32>>, <<93760, 93791, 1, 32>>,
      <<125184, 125217, 1, 34>> }

InLowerRange(c, r) == c >= r[1] /\ c <= r[2] /\ (c - r[1]) % r[3] = 0

\* unicode.ToLower
unicodeToLower(c) ==
    IF c < 128 THEN (IF c >= ch.A /\ c <= ch.Z THEN c + 32 ELSE c)
    ELSE IF \E r \in LowerRanges : InLowerRange(c, r)
         THEN c + (CHOOSE r \in LowerRanges : InLowerRange(c, r))[4]
    ELSE c

\* strings.Map(unicode.ToLower, s) from byte offset i: every rune lowered
\* and encoded again, every byte that is no valid UTF-8 replaced by U+FFFD.
RECURSIVE mapToLower(_, _)
mapToLower(s, i) ==
    IF i >= Len(s) THEN <<>>
    ELSE Then(DecodeRune(s, i), LAMBDA d :
           EncodeRune(unicodeToLower(d.c)) \o mapToLower(s, i + d.size))

\* strings.ToLower: byte by byte on a string of ASCII bytes, rune by rune on
\* any other.
ToLower(s) ==
    IF \A i \in 1..Len(s) : s[i] < 128
    THEN [i \in 1..Len(s) |-> IF s[i] >= ch.A /\ s[i] <= ch.Z THEN s[i] + 32 ELSE s[i]]
    ELSE mapToLower(s, 0)

\* The loop of xstring over a quoted string: q is the parser after the
\* opening quote, i the byte offset into q.orig[q.o:].
RECURSIVE quoted(_, _, _, _)
quoted(q, i, esc, r) ==
    IF q.o + i >= Len(q.orig)
    THEN xerrorf(q, "missing closing dquote in string")
    ELSE Then(DecodeRune(q.orig, q.o + i), LAMBDA d :
           IF d.c = ch.bslash THEN quoted(q, i + d.size, TRUE, r)
           ELSE IF d.c \in {ch.nul, ch.cr, ch.lf}
                THEN xerrorf(q, "invalid nul, cr or lf in string")
           ELSE IF esc
                THEN IF d.c = ch.bslash \/ d.c = ch.dquote
                     THEN quoted(q, i + d.size, FALSE, r \o d.str)
                     ELSE xerrorf(q, "invalid escape char %c")
           ELSE IF d.c = ch.dquote
                THEN Ok([q EXCEPT !.o = @ + i + 1], r)
           ELSE quoted(q, i + d.size, esc, r \o d.str))

\* A transport call made for the parser q: its error is raised as it is,
\* and the connection is the one the call leaves.
onConn(q, r) ==
    [p |-> [q EXCEPT !.conn = r.conn], err |-> r.err, v |-> r.v]

\* A literal branch that prompts for the non-synchronising literal.
literalPromptOnPlus(q) ==
    Do(xliteralSize(q, maxLiteralSize, FALSE), LAMBDA h :
    Do(onConn(h.p, xreadliteral(h.p.conn, h.v.size, ~h.v.sync)), LAMBDA s :
    Do(onConn(s.p, readline(s.p.conn, FALSE)), LAMBDA line :
      Ok([line.p EXCEPT !.orig = line.v, !.upper = toUpper(line.v), !.o = 0],
         s.v))))

\* The literal branch of xstring: the header, the octets, the next line.
literal(q) ==
    Do(xliteralSize(q, maxLiteralSize, FALSE), LAMBDA h :
    Do(onConn(h.p, xreadliteral(h.p.conn, h.v.size, h.v.sync)), LAMBDA s :
    Do(onConn(s.p, readline(s.p.conn, FALSE)), LAMBDA line :
      Ok([line.p EXCEPT !.orig = line.v, !.upper = toUpper(line.v), !.o = 0],
         s.v))))

xstring(q) ==
    Then(take(q, <<ch.dquote>>), LAMBDA t :
      IF t.ok THEN quoted(t.p, 0, FALSE, <<>>) ELSE literal(q))

kwNIL == <<78, 73, 76>>   \* NIL

xnil(q) == xtake(q, kwNIL)

\* Returns NIL as empty string.
xnilString(q) ==
    Then(take(q, kwNIL), LAMBDA t :
      IF t.ok THEN Ok(t.p, <<>>) ELSE xstring(q))

xastring(q) ==
    IF \/ hasPrefix(q, <<ch.dquote>>)
       \/ hasPrefix(q, <<ch.lbrace>>)
       \/ hasPrefix(q, <<ch.tilde, ch.lbrace>>)
    THEN xstring(q)
    ELSE xtakechars(q, astringChar)

xtag(q) ==
    Do(xnonempty(q), LAMBDA e :
      Then(Run(q.orig, q.o, 0, astringChar \ {ch.plus}, astringChar \ {ch.plus}),
           LAMBDA n : taken1n(q, n)))

kwUID == <<85, 73, 68>>   \* UID

\* The bytes the loop of xcommand passes over: letters, and a space when
\* the bytes before it are exactly UID.
RECURSIVE commandRun(_, _)
commandRun(q, i) ==
    IF q.o + i >= Len(q.upper) THEN i
    ELSE IF ~(\/ q.upper[q.o + i + 1] >= ch.A /\ q.upper[q.o + i + 1] <= ch.Z
              \/ /\ q.upper[q.o + i + 1] = ch.sp
                 /\ Slice(q.upper, q.o, q.o + i) = kwUID)
         THEN i
    ELSE commandRun(q, i + 1)

xcommand(q) == Then(commandRun(q, 0), LAMBDA n : taken1n(q, n))

remainder(q) == From(q.orig, q.o)

xatom(q) == xtakechars(q, atomChar)

systemFlags ==
    { <<92, 97, 110, 115, 119, 101, 114, 101, 100>>,   \* \answered
      <<92, 102, 108, 97, 103, 103, 101, 100>>,        \* \flagged
      <<92, 100, 101, 108, 101, 116, 101, 100>>,       \* \deleted
      <<92, 115, 101, 101, 110>>,                      \* \seen
      <<92, 100, 114, 97, 102, 116>> }                 \* \draft

xflag(q) ==
    Then(takelist(q, << <<ch.bslash>>, <<ch.dollar>> >>), LAMBDA w :
    Do(xatom(w.p), LAMBDA a :
    Then(w.v \o a.v, LAMBDA s :
      IF s[1] = ch.bslash /\ ToLower(s) \notin systemFlags
      THEN xerrorf(a.p, "unknown system flag %s")
      ELSE Ok(a.p, s))))

\* The loop of xflagList: until ")", a space and a flag.
RECURSIVE flagListLoop(_, _)
flagListLoop(q, l) ==
    Then(take(q, <<ch.rparen>>), LAMBDA t :
      IF t.ok THEN Ok(t.p, l)
      ELSE Do(xspace(q), LAMBDA s :
           Do(xflag(s.p), LAMBDA f : flagListLoop(f.p, Append(l, f.v)))))

xflagList(q) ==
    Do(xtake(q, <<ch.lparen>>), LAMBDA o :
      IF ~hasPrefix(o.p, <<ch.rparen>>)
      THEN Do(xflag(o.p), LAMBDA f : flagListLoop(f.p, <<f.v>>))
      ELSE flagListLoop(o.p, <<>>))

xlistMailbox(q) ==
    IF hasPrefix(q, <<ch.dquote>>) \/ hasPrefix(q, <<ch.lbrace>>)
    THEN xstring(q)
    ELSE xtakechars(q, atomChar \cup listWildcards \cup respSpecials)

\* The loop of xmboxOrPat: until ")", a space and a mailbox.
RECURSIVE mboxOrPatLoop(_, _)
mboxOrPatLoop(q, l) ==
    Then(take(q, <<ch.rparen>>), LAMBDA t :
      IF t.ok THEN Ok(t.p, [l |-> l, isList |-> TRUE])
      ELSE Do(xspace(q), LAMBDA s :
           Do(xlistMailbox(s.p), LAMBDA m : mboxOrPatLoop(m.p, Append(l, m.v)))))

xmboxOrPat(q) ==
    Then(take(q, <<ch.lparen>>), LAMBDA t :
      Do(xlistMailbox(t.p), LAMBDA m :
        IF ~t.ok THEN Ok(m.p, [l |-> <<m.v>>, isList |-> FALSE])
        ELSE mboxOrPatLoop(m.p, <<m.v>>)))

statusAttWords ==
    << <<77, 69, 83, 83, 65, 71, 69, 83>>,   \* MESSAGES
       <<85, 73, 68, 78, 69, 88, 84>>,   \* UIDNEXT
       <<85, 73, 68, 86, 65, 76, 73, 68, 73, 84, 89>>,   \* UIDVALIDITY
       <<85, 78, 83, 69, 69, 78>>,   \* UNSEEN
       <<68, 69, 76, 69, 84, 69, 68>>,   \* DELETED
       <<83, 73, 90, 69>>,   \* SIZE
       <<82, 69, 67, 69, 78, 84>>,   \* RECENT
       <<65, 80, 80, 69, 78, 68, 76, 73, 77, 73, 84>> >>   \* APPENDLIMIT

xstatusAtt(q) == xtakelist(q, statusAttWords)

(***************************************************************************)
(* Sequence sets                                                           *)
(***************************************************************************)

\* A nil pointer is <<>> and a pointer to x is <<x>>.
Nil == <<>>

Ptr(x) == <<x>>

\* A setNumber is a number or the star.
setNumber(n, star) == [number |-> n, star |-> star]

\* One side of a range: "*" or a non-zero number.
xsetNumber(q) ==
    Then(take(q, <<ch.star>>), LAMBDA t :
      IF t.ok THEN Ok(t.p, setNumber(Zero, TRUE))
      ELSE Do(xnznumber(q), LAMBDA n : Ok(n.p, setNumber(n.v, FALSE))))

\* An xnumRange that forgets the star of the last number.
xnumRangeNoStar(q) ==
    Do(xsetNumber(q), LAMBDA f :
      Then(take(f.p, <<ch.colon>>), LAMBDA c :
        IF ~c.ok THEN Ok(f.p, [first |-> f.v, last |-> Nil])
        ELSE Do(xsetNumber(c.p), LAMBDA l :
               Ok(l.p, [first |-> f.v,
                        last |-> Ptr(setNumber(l.v.number, FALSE))]))))

\* parse numRange, which can be just a setNumber.
xnumRange(q) ==
    Do(xsetNumber(q), LAMBDA f :
      Then(take(f.p, <<ch.colon>>), LAMBDA c :
        IF ~c.ok THEN Ok(f.p, [first |-> f.v, last |-> Nil])
        ELSE Do(xsetNumber(c.p), LAMBDA l :
               Ok(l.p, [first |-> f.v, last |-> Ptr(l.v)]))))

\* The loop of xnumSet: a range after each ",".
RECURSIVE numSetLoop(_, _)
numSetLoop(q, ranges) ==
    Then(take(q, <<ch.comma>>), LAMBDA t :
      IF ~t.ok THEN Ok(q, [searchResult |-> FALSE, ranges |-> ranges])
      ELSE Do(xnumRange(t.p), LAMBDA r : numSetLoop(r.p, Append(ranges, r.v))))

xnumSet(q) ==
    uncontext(
      Then(take(context(q, "numSet"), <<ch.dollar>>), LAMBDA t :
        IF t.ok THEN Ok(t.p, [searchResult |-> TRUE, ranges |-> <<>>])
        ELSE Do(xnumRange(t.p), LAMBDA r : numSetLoop(r.p, <<r.v>>))))

(***************************************************************************)
(* Sections and fetch attributes                                           *)
(***************************************************************************)

\* The bytes of an RFC 7230 token, which a MIME header key is made of.
headerFieldBytes ==
    (48..57) \cup (65..90) \cup (97..122)
    \cup {33, 35, 36, 37, 38, 39, 42, 43, 45, 46, 94, 95, 96, 124, 126}

\* textproto.CanonicalMIMEHeaderKey: a key of token bytes gets an upper
\* case letter first and after each "-" and lower case letters elsewhere;
\* any other key is returned unchanged.
CanonicalMIMEHeaderKey(s) ==
    IF \E i \in 1..Len(s) : s[i] \notin headerFieldBytes THEN s
    ELSE [i \in 1..Len(s) |->
            IF i = 1 \/ s[i - 1] = ch.minus
            THEN (IF s[i] >= ch.a /\ s[i] <= ch.z THEN s[i] - 32 ELSE s[i])
            ELSE (IF s[i] >= ch.A /\ s[i] <= ch.Z THEN s[i] + 32 ELSE s[i])]

msgtextWords ==
    << <<72, 69, 65, 68, 69, 82, 46, 70, 73, 69, 76, 68, 83, 46, 78, 79, 84>>,   \* HEADER.FIELDS.NOT
       <<72, 69, 65, 68, 69, 82, 46, 70, 73, 69, 76, 68, 83>>,   \* HEADER.FIELDS
       <<72, 69, 65, 68, 69, 82>>,   \* HEADER
       <<84, 69, 88, 84>> >>   \* TEXT

kwHEADER_FIELDS == <<72, 69, 65, 68, 69, 82, 46, 70, 73, 69, 76, 68, 83>>   \* HEADER.FIELDS

kwMIME == <<77, 73, 77, 69>>   \* MIME

\* The loop of xsectionMsgtext: until ")", a space and a header name.
RECURSIVE headersLoop(_, _, _)
headersLoop(q, w, l) ==
    Then(take(q, <<ch.rparen>>), LAMBDA t :
      IF t.ok THEN Ok(t.p, [s |-> w, headers |-> l])
      ELSE Do(xspace(q), LAMBDA s :
           Do(xastring(s.p), LAMBDA a :
             headersLoop(a.p, w, Append(l, CanonicalMIMEHeaderKey(a.v))))))

xsectionMsgtext(q) ==
    uncontext(
      Do(xtakelist(context(q, "sectionMsgtext"), msgtextWords), LAMBDA w :
        IF ~HasPrefix(w.v, kwHEADER_FIELDS)
        THEN Ok(w.p, [s |-> w.v, headers |-> <<>>])
        ELSE Do(xspace(w.p), LAMBDA s :
             Do(xtake(s.p, <<ch.lparen>>), LAMBDA o :
             Do(xastring(o.p), LAMBDA a :
               headersLoop(a.p, w.v, <<CanonicalMIMEHeaderKey(a.v)>>))))))

\* The loop of xsectionSpec over the part path after its first number.
RECURSIVE sectionPartLoop(_, _)
sectionPartLoop(q, pt) ==
    Then(take(q, <<ch.dot>>), LAMBDA d :
      IF ~d.ok THEN Ok(q, pt)
      ELSE Then(nznumber(d.p), LAMBDA n :
        IF n.ok THEN sectionPartLoop(n.p, [pt EXCEPT !.part = Append(@, n.v)])
        ELSE Then(take(d.p, kwMIME), LAMBDA m :
          IF m.ok
          THEN Ok(m.p, [pt EXCEPT !.text = Ptr([mime |-> TRUE, msgtext |-> Nil])])
          ELSE Do(xsectionMsgtext(d.p), LAMBDA t :
                 Ok(t.p, [pt EXCEPT !.text = Ptr([mime |-> FALSE,
                                                  msgtext |-> Ptr(t.v)])])))))

xsectionSpec(q) ==
    Then(nznumber(context(q, "parseSectionSpec")), LAMBDA n :
      IF ~n.ok
      THEN uncontext(Do(xsectionMsgtext(n.p), LAMBDA t :
                       Ok(t.p, [msgtext |-> Ptr(t.v), part |-> Nil])))
      ELSE uncontext(uncontext(
             Do(sectionPartLoop(context(n.p, "part..."),
                                [part |-> <<n.v>>, text |-> Nil]), LAMBDA l :
               Ok(l.p, [msgtext |-> Nil, part |-> Ptr(l.v)])))))

xsection(q) ==
    uncontext(
      Do(xtake(context(q, "parseSection"), <<ch.lbrack>>), LAMBDA o :
        Then(take(o.p, <<ch.rbrack>>), LAMBDA e :
          IF e.ok THEN Ok(e.p, [msgtext |-> Nil, part |-> Nil])
          ELSE Do(xsectionSpec(o.p), LAMBDA r :
               Do(xtake(r.p, <<ch.rbrack>>), LAMBDA c : Ok(c.p, r.v))))))

xpartial(q) ==
    Do(xtake(q, <<ch.lt>>), LAMBDA o :
    Do(xnumber(o.p), LAMBDA offset :
    Do(xtake(offset.p, <<ch.dot>>), LAMBDA d :
    Do(xnznumber(d.p), LAMBDA count :
    Do(xtake(count.p, <<ch.gt>>), LAMBDA e :
      Ok(e.p, [offset |-> offset.v, count |-> count.v]))))))

\* The loop of xsectionBinary: a non-zero number after each ".".
RECURSIVE sectionBinaryLoop(_, _)
sectionBinaryLoop(q, r) ==
    Then(take(q, <<ch.dot>>), LAMBDA d :
      IF ~d.ok THEN Ok(q, r)
      ELSE Do(xnznumber(d.p), LAMBDA n : sectionBinaryLoop(n.p, Append(r, n.v))))

xsectionBinary(q) ==
    Do(xtake(q, <<ch.lbrack>>), LAMBDA o :
      Then(take(o.p, <<ch.rbrack>>), LAMBDA e :
        IF e.ok THEN Ok(e.p, <<>>)
        ELSE Do(xnznumber(o.p), LAMBDA n :
             Do(sectionBinaryLoop(n.p, <<n.v>>), LAMBDA l :
             Do(xtake(l.p, <<ch.rbrack>>), LAMBDA c : Ok(c.p, l.v))))))

\* The words of xfetchAtt with BODY put first.
fetchAttWordsBodyFirst ==
    << <<66, 79, 68, 89>>,   \* BODY
       <<69, 78, 86, 69, 76, 79, 80, 69>>,   \* ENVELOPE
       <<70, 76, 65, 71, 83>>,   \* FLAGS
       <<73, 78, 84, 69, 82, 78, 65, 76, 68, 65, 84, 69>>,   \* INTERNALDATE
       <<82, 70, 67, 56, 50, 50, 46, 83, 73, 90, 69>>,   \* RFC822.SIZE
       <<66, 79, 68, 89, 83, 84, 82, 85, 67, 84, 85, 82, 69>>,   \* BODYSTRUCTURE
       <<85, 73, 68>>,   \* UID
       <<66, 79, 68, 89, 46, 80, 69, 69, 75>>,   \* BODY.PEEK
       <<66, 73, 78, 65, 82, 89, 46, 80, 69, 69, 75>>,   \* BINARY.PEEK
       <<66, 73, 78, 65, 82, 89, 46, 83, 73, 90, 69>>,   \* BINARY.SIZE
       <<66, 73, 78, 65, 82, 89>>,   \* BINARY
       <<82, 70, 67, 56, 50, 50, 46, 72, 69, 65, 68, 69, 82>>,   \* RFC822.HEADER
       <<82, 70, 67, 56, 50, 50, 46, 84, 69, 88, 84>>,   \* RFC822.TEXT
       <<82, 70, 67, 56, 50, 50>> >>   \* RFC822

\* The words of xfetchAtt.
fetchAttWords ==
    << <<69, 78, 86, 69, 76, 79, 80, 69>>,   \* ENVELOPE
       <<70, 76, 65, 71, 83>>,   \* FLAGS
       <<73, 78, 84, 69, 82, 78, 65, 76, 68, 65, 84, 69>>,   \* INTERNALDATE
       <<82, 70, 67, 56, 50, 50, 46, 83, 73, 90, 69>>,   \* RFC822.SIZE
       <<66, 79, 68, 89, 83, 84, 82, 85, 67, 84, 85, 82, 69>>,   \* BODYSTRUCTURE
       <<85, 73, 68>>,   \* UID
       <<66, 79, 68, 89, 46, 80, 69, 69, 75>>,   \* BODY.PEEK
       <<66, 79, 68, 89>>,   \* BODY
       <<66, 73, 78, 65, 82, 89, 46, 80, 69, 69, 75>>,   \* BINARY.PEEK
       <<66, 73, 78, 65, 82, 89, 46, 83, 73, 90, 69>>,   \* BINARY.SIZE
       <<66, 73, 78, 65, 82, 89>>,   \* BINARY
       <<82, 70, 67, 56, 50, 50, 46, 72, 69, 65, 68, 69, 82>>,   \* RFC822.HEADER
       <<82, 70, 67, 56, 50, 50, 46, 84, 69, 88, 84>>,   \* RFC822.TEXT
       <<82, 70, 67, 56, 50, 50>> >>   \* RFC822

kwDotPEEK == <<46, 80, 69, 69, 75>>   \* .PEEK

kwBODY == <<66, 79, 68, 89>>   \* BODY

kwBINARY == <<66, 73, 78, 65, 82, 89>>   \* BINARY

kwBINARY_SIZE == <<66, 73, 78, 65, 82, 89, 46, 83, 73, 90, 69>>   \* BINARY.SIZE

\* A fetchAtt with its field and peek set.
fetchAtt(field, peek) ==
    [field |-> field, peek |-> peek, section |-> Nil, sectionBinary |-> <<>>,
     partial |-> Nil]

\* The partial that may follow a section: parsed when "<" is next.
optPartial(q) ==
    IF ~hasPrefix(q, <<ch.lt>>) THEN Ok(q, Nil)
    ELSE Do(xpartial(q), LAMBDA r : Ok(r.p, Ptr(r.v)))

xfetchAtt(q) ==
    uncontext(
      Do(xtakelist(context(q, "fetchAtt"), fetchAttWords), LAMBDA f :
        Then(fetchAtt(TrimSuffix(f.v, kwDotPEEK), HasSuffix(f.v, kwDotPEEK)),
             LAMBDA r :
          IF r.field = kwBODY
          THEN IF ~hasPrefix(f.p, <<ch.lbrack>>) THEN Ok(f.p, r)
               ELSE Do(xsection(f.p), LAMBDA s :
                    Do(optPartial(s.p), LAMBDA sp :
                      Ok(sp.p, [r EXCEPT !.section = Ptr(s.v),
                                         !.partial = sp.v])))
          ELSE IF r.field = kwBINARY
          THEN Do(xsectionBinary(f.p), LAMBDA b :
               Do(optPartial(b.p), LAMBDA bp :
                 Ok(bp.p, [r EXCEPT !.sectionBinary = b.v, !.partial = bp.v])))
          ELSE IF r.field = kwBINARY_SIZE
          THEN Do(xsectionBinary(f.p), LAMBDA b :
                 Ok(b.p, [r EXCEPT !.sectionBinary = b.v]))
          ELSE Ok(f.p, r))))

fetchMacroWords ==
    << <<65, 76, 76>>,   \* ALL
       <<70, 65, 83, 84>>,   \* FAST
       <<70, 85, 76, 76>> >>   \* FULL

kwFLAGS == <<70, 76, 65, 71, 83>>   \* FLAGS

kwINTERNALDATE == <<73, 78, 84, 69, 82, 78, 65, 76, 68, 65, 84, 69>>   \* INTERNALDATE

kwRFC822_SIZE == <<82, 70, 67, 56, 50, 50, 46, 83, 73, 90, 69>>   \* RFC822.SIZE

kwENVELOPE == <<69, 78, 86, 69, 76, 79, 80, 69>>   \* ENVELOPE

kwALL == <<65, 76, 76>>   \* ALL

kwFAST == <<70, 65, 83, 84>>   \* FAST

\* fields: the attributes a macro stands for.
fields(l) == [i \in 1..Len(l) |-> fetchAtt(l[i], FALSE)]

\* The loop of xfetchAtts: an attribute, and another after each space.
RECURSIVE fetchAttsLoop(_, _)
fetchAttsLoop(q, l) ==
    Do(xfetchAtt(q), LAMBDA a :
      Then(take(a.p, <<ch.sp>>), LAMBDA t :
        IF t.ok THEN fetchAttsLoop(t.p, Append(l, a.v))
        ELSE Ok(a.p, Append(l, a.v))))

xfetchAtts(q) ==
    uncontext(
      Then(takelist(context(q, "fetchAtts"), fetchMacroWords), LAMBDA w :
        IF w.ok
        THEN Ok(w.p, fields(
               IF w.v = kwALL
               THEN <<kwFLAGS, kwINTERNALDATE, kwRFC822_SIZE, kwENVELOPE>>
               ELSE IF w.v = kwFAST
               THEN <<kwFLAGS, kwINTERNALDATE, kwRFC822_SIZE>>
               ELSE <<kwFLAGS, kwINTERNALDATE, kwRFC822_SIZE, kwENVELOPE, kwBODY>>))
        ELSE IF ~hasPrefix(w.p, <<ch.lparen>>)
        THEN Do(xfetchAtt(w.p), LAMBDA a : Ok(a.p, <<a.v>>))
        ELSE Do(xtake(w.p, <<ch.lparen>>), LAMBDA o :
             Do(fetchAttsLoop(o.p, <<>>), LAMBDA l :
             Do(xtake(l.p, <<ch.rparen>>), LAMBDA c : Ok(c.p, l.v))))))

(***************************************************************************)
(* Dates and times                                                         *)
(***************************************************************************)

\* xint: strconv.ParseInt(s, 10, 32) as an int.
xint(q, s) ==
    Then(ParseInt(s, 32), LAMBDA v :
      IF ~v.ok THEN xerrorf(q, "bad int %q: %v")
      ELSE Ok(q, IF v.neg THEN 0 - ToInt(v.n) ELSE ToInt(v.n)))

digit(q) ==
    IF empty(q) THEN [p |-> q, ok |-> FALSE, v |-> <<>>]
    ELSE IF ~IsDigit(q.orig[q.o + 1]) THEN [p |-> q, ok |-> FALSE, v |-> <<>>]
    ELSE [p |-> [q EXCEPT !.o = @ + 1], ok |-> TRUE,
          v |-> Slice(q.orig, q.o, q.o + 1)]

xdigit(q) ==
    Then(digit(q), LAMBDA r :
      IF ~r.ok THEN xerrorf(q, "expected digit") ELSE Ok(r.p, r.v))

xdateDayFixed(q) ==
    Then(take(q, <<ch.sp>>), LAMBDA t :
      Do(xdigit(t.p), LAMBDA d1 :
        IF t.ok THEN xint(d1.p, d1.v)
        ELSE Do(xdigit(d1.p), LAMBDA d2 : xint(d2.p, d1.v \o d2.v))))

months ==
    << <<106, 97, 110>>,   \* jan
       <<102, 101, 98>>,   \* feb
       <<109, 97, 114>>,   \* mar
       <<97, 112, 114>>,   \* apr
       <<109, 97, 121>>,   \* may
       <<106, 117, 110>>,   \* jun
       <<106, 117, 108>>,   \* jul
       <<97, 117, 103>>,   \* aug
       <<115, 101, 112>>,   \* sep
       <<111, 99, 116>>,   \* oct
       <<110, 111, 118>>,   \* nov
       <<100, 101, 99>> >>   \* dec

\* The number of the month named s, 0 when there is none.
monthIndex(s) ==
    IF \E i \in 1..Len(months) : months[i] = s
    THEN CHOOSE i \in 1..Len(months) : months[i] = s
    ELSE 0

xdateMonth(q) ==
    Do(xtaken(q, 3), LAMBDA t :
      Then(monthIndex(ToLower(t.v)), LAMBDA m :
        IF m = 0 THEN xerrorf(t.p, "unknown month %q") ELSE Ok(t.p, m)))

\* xint(p, p.xtaken(n))
xintn(q, n) == Do(xtaken(q, n), LAMBDA s : xint(s.p, s.v))

xtime(q) ==
    Do(xintn(q, 2), LAMBDA h :
    Do(xtake(h.p, <<ch.colon>>), LAMBDA c1 :
    Do(xintn(c1.p, 2), LAMBDA m :
    Do(xtake(m.p, <<ch.colon>>), LAMBDA c2 :
    Do(xintn(c2.p, 2), LAMBDA s :
      Ok(s.p, <<h.v, m.v, s.v>>))))))

\* Go's integer division and remainder, which truncate towards zero.
Quo(a, b) == IF a >= 0 THEN a \div b ELSE 0 - ((0 - a) \div b)

Rem(a, b) == a - Quo(a, b) * b

xzone(q) ==
    Do(xtakelist(q, << <<ch.plus>>, <<ch.minus>> >>), LAMBDA sign :
    Do(xtaken(sign.p, 4), LAMBDA s :
    Do(xint(s.p, s.v), LAMBDA v :
      Then(Quo(v.v, 100) * 3600 + Rem(v.v, 100) * 60, LAMBDA seconds :
        Ok(v.p, [name |-> sign.v \o s.v,
                 seconds |-> IF sign.v[1] = ch.minus THEN 0 - seconds
                             ELSE seconds])))))

\* The number of days from 1 March of year 0 to day d of month m of year
\* y in the proleptic Gregorian calendar, for m in 1..12 and any d: the
\* years count from March so that the leap day is the last of its year.
DaysFromCivil(y, m, d) ==
    Then(IF m <= 2 THEN y - 1 ELSE y, LAMBDA y1 :
    Then(IF m > 2 THEN m - 3 ELSE m + 9, LAMBDA mp :
      365 * y1 + (y1 \div 4) - (y1 \div 100) + (y1 \div 400)
        + ((153 * mp + 2) \div 5) + d - 1))

\* The year, month and day of the day that is z days after 1 March of
\* year 0.
CivilFromDays(z) ==
    Then(z \div 146097, LAMBDA era :
    Then(z - era * 146097, LAMBDA doe :
    Then((doe - (doe \div 1460) + (doe \div 36524) - (doe \div 146096)) \div 365,
         LAMBDA yoe :
    Then(doe - (365 * yoe + (yoe \div 4) - (yoe \div 100)), LAMBDA doy :
    Then((5 * doy + 2) \div 153, LAMBDA mp :
    Then(IF mp < 10 THEN mp + 3 ELSE mp - 9, LAMBDA m :
      [year |-> yoe + era * 400 + (IF m <= 2 THEN 1 ELSE 0),
       month |-> m,
       day |-> doy - ((153 * mp + 2) \div 5) + 1]))))))

\* time.Date: the fields are normalised, a value out of its range carries
\* into the next field (month 13 is January of the next year, day 0 the
\* last day of the month before, second -1 the last of the minute before).
Date(year, month, day, hour, min, sec, loc) ==
    Then(hour * 3600 + min * 60 + sec, LAMBDA t :
    Then(CivilFromDays(DaysFromCivil(year + ((month - 1) \div 12),
                                     ((month - 1) % 12) + 1, day)
                       + (t \div 86400)), LAMBDA c :
      [year |-> c.year, month |-> c.month, day |-> c.day,
       hour |-> (t % 86400) \div 3600, min |-> (t % 3600) \div 60,
       sec |-> t % 60, loc |-> loc]))

UTC == [name |-> <<85, 84, 67>>, seconds |-> 0]   \* UTC

xdateTime(q) ==
    Do(xtake(q, <<ch.dquote>>), LAMBDA o :
    Do(xdateDayFixed(o.p), LAMBDA day :
    Do(xtake(day.p, <<ch.minus>>), LAMBDA m1 :
    Do(xdateMonth(m1.p), LAMBDA month :
    Do(xtake(month.p, <<ch.minus>>), LAMBDA m2 :
    Do(xintn(m2.p, 4), LAMBDA year :
    Do(xspace(year.p), LAMBDA s1 :
    Do(xtime(s1.p), LAMBDA t :
    Do(xspace(t.p), LAMBDA s2 :
    Do(xzone(s2.p), LAMBDA z :
    Do(xtake(z.p, <<ch.dquote>>), LAMBDA c :
      Ok(c.p, Date(year.v, month.v, day.v, t.v[1], t.v[2], t.v[3], z.v)))))))))))))

xdateDay(q) ==
    Do(xdigit(q), LAMBDA d :
      Then(digit(d.p), LAMBDA e :
        xint(e.p, IF e.ok THEN d.v \o e.v ELSE d.v)))

xdate(q) ==
    Then(take(q, <<ch.dquote>>), LAMBDA dquote :
    Do(xdateDay(dquote.p), LAMBDA day :
    Do(xtake(day.p, <<ch.minus>>), LAMBDA m1 :
    Do(xdateMonth(m1.p), LAMBDA mon :
    Do(xtake(mon.p, <<ch.minus>>), LAMBDA m2 :
    Do(xintn(m2.p, 4), LAMBDA year :
      Ok(IF dquote.ok THEN take(year.p, <<ch.dquote>>).p ELSE year.p,
         Date(year.v, mon.v, day.v, 0, 0, 0, UTC))))))))

(***************************************************************************)
(* Search keys                                                             *)
(***************************************************************************)

searchKeyWords ==
    << <<65, 76, 76>>,   \* ALL
       <<65, 78, 83, 87, 69, 82, 69, 68>>,   \* ANSWERED
       <<66, 67, 67>>,   \* BCC
       <<66, 69, 70, 79, 82, 69>>,   \* BEFORE
       <<66, 79, 68, 89>>,   \* BODY
       <<67, 67>>,   \* CC
       <<68, 69, 76, 69, 84, 69, 68>>,   \* DELETED
       <<70, 76, 65, 71, 71, 69, 68>>,   \* FLAGGED
       <<70, 82, 79, 77>>,   \* FROM
       <<75, 69, 89, 87, 79, 82, 68>>,   \* KEYWORD
       <<78, 69, 87>>,   \* NEW
       <<79, 76, 68>>,   \* OLD
       <<79, 78>>,   \* ON
       <<82, 69, 67, 69, 78, 84>>,   \* RECENT
       <<83, 69, 69, 78>>,   \* SEEN
       <<83, 73, 78, 67, 69>>,   \* SINCE
       <<83, 85, 66, 74, 69, 67, 84>>,   \* SUBJECT
       <<84, 69, 88, 84>>,   \* TEXT
       <<84, 79>>,   \* TO
       <<85, 78, 65, 78, 83, 87, 69, 82, 69, 68>>,   \* UNANSWERED
       <<85, 78, 68, 69, 76, 69, 84, 69, 68>>,   \* UNDELETED
       <<85, 78, 70, 76, 65, 71, 71, 69, 68>>,   \* UNFLAGGED
       <<85, 78, 75, 69, 89, 87, 79, 82, 68>>,   \* UNKEYWORD
       <<85, 78, 83, 69, 69, 78>>,   \* UNSEEN
       <<68, 82, 65, 70, 84>>,   \* DRAFT
       <<72, 69, 65, 68, 69, 82>>,   \* HEADER
       <<76, 65, 82, 71, 69, 82>>,   \* LARGER
       <<78, 79, 84>>,   \* NOT
       <<79, 82>>,   \* OR
       <<83, 69, 78, 84, 66, 69, 70, 79, 82, 69>>,   \* SENTBEFORE
       <<83, 69, 78, 84, 79, 78>>,   \* SENTON
       <<83, 69, 78, 84, 83, 73, 78, 67, 69>>,   \* SENTSINCE
       <<83, 77, 65, 76, 76, 69, 82>>,   \* SMALLER
       <<85, 73, 68>>,   \* UID
       <<85, 78, 68, 82, 65, 70, 84>> >>   \* UNDRAFT

kwHEADER == <<72, 69, 65, 68, 69, 82>>   \* HEADER

kwNOT == <<78, 79, 84>>   \* NOT

kwOR == <<79, 82>>   \* OR

\* The keys of the switch of xsearchKey whose case is a space and an
\* astring.
searchAstringOps ==
    { <<66, 67, 67>>,
      <<66, 79, 68, 89>>,
      <<67, 67>>,
      <<70, 82, 79, 77>>,
      <<83, 85, 66, 74, 69, 67, 84>>,
      <<84, 69, 88, 84>>,
      <<84, 79>> }
    \* BCC BODY CC FROM SUBJECT TEXT TO

\* The keys whose case is a space and a date.
searchDateOps ==
    { <<66, 69, 70, 79, 82, 69>>,
      <<79, 78>>,
      <<83, 73, 78, 67, 69>>,
      <<83, 69, 78, 84, 66, 69, 70, 79, 82, 69>>,
      <<83, 69, 78, 84, 79, 78>>,
      <<83, 69, 78, 84, 83, 73, 78, 67, 69>> }
    \* BEFORE ON SINCE SENTBEFORE SENTON SENTSINCE

\* The keys whose case is a space and an atom.
searchAtomOps ==
    { <<75, 69, 89, 87, 79, 82, 68>>,
      <<85, 78, 75, 69, 89, 87, 79, 82, 68>> }
    \* KEYWORD UNKEYWORD

\* The keys whose case is a space and a number64.
searchNumberOps ==
    { <<76, 65, 82, 71, 69, 82>>,
      <<83, 77, 65, 76, 76, 69, 82>> }
    \* LARGER SMALLER

\* The keys whose case is a space and something after it.
searchArgOps ==
    searchAstringOps \cup searchDateOps \cup searchAtomOps \cup searchNumberOps
    \cup {kwHEADER, kwNOT, kwOR, kwUID}

\* The zero searchKey.
searchKey ==
    [op |-> <<>>, searchKeys |-> <<>>, seqSet |-> Nil, astring |-> <<>>,
     atom |-> <<>>, headerField |-> <<>>, date |-> Nil, number |-> Zero,
     uidSet |-> [searchResult |-> FALSE, ranges |-> <<>>],
     searchKey |-> Nil, searchKey2 |-> Nil]

RECURSIVE xsearchKey(_)
RECURSIVE searchKeyGroupLoop(_, _)
RECURSIVE searchKeyArg(_, _)

\* The loop of a parenthesised group: until ")", a space and a key.
searchKeyGroupLoop(q, l) ==
    Then(take(q, <<ch.rparen>>), LAMBDA t :
      IF t.ok THEN Ok(t.p, [searchKey EXCEPT !.searchKeys = l])
      ELSE Do(xspace(q), LAMBDA s :
           Do(xsearchKey(s.p), LAMBDA k :
             searchKeyGroupLoop(k.p, Append(l, k.v)))))

\* The cases of the switch of xsearchKey that parse something after the
\* key and its space.
searchKeyArg(q, sk) ==
    IF sk.op \in searchAstringOps
    THEN Do(xastring(q), LAMBDA a : Ok(a.p, [sk EXCEPT !.astring = a.v]))
    ELSE IF sk.op \in searchDateOps
    THEN Do(xdate(q), LAMBDA d : Ok(d.p, [sk EXCEPT !.date = Ptr(d.v)]))
    ELSE IF sk.op \in searchAtomOps
    THEN Do(xatom(q), LAMBDA t : Ok(t.p, [sk EXCEPT !.atom = t.v]))
    ELSE IF sk.op = kwHEADER
    THEN Do(xastring(q), LAMBDA h :
         Do(xspace(h.p), LAMBDA s :
         Do(xastring(s.p), LAMBDA a :
           Ok(a.p, [sk EXCEPT !.headerField = h.v, !.astring = a.v]))))
    ELSE IF sk.op \in searchNumberOps
    THEN Do(xnumber64(q), LAMBDA n : Ok(n.p, [sk EXCEPT !.number = n.v]))
    ELSE IF sk.op = kwNOT
    THEN Do(xsearchKey(q), LAMBDA k : Ok(k.p, [sk EXCEPT !.searchKey = Ptr(k.v)]))
    ELSE IF sk.op = kwOR
    THEN Do(xsearchKey(q), LAMBDA k1 :
         Do(xspace(k1.p), LAMBDA s :
         Do(xsearchKey(s.p), LAMBDA k2 :
           Ok(k2.p, [sk EXCEPT !.searchKey = Ptr(k1.v),
                               !.searchKey2 = Ptr(k2.v)]))))
    ELSE Do(xnumSet(q), LAMBDA u : Ok(u.p, [sk EXCEPT !.uidSet = u.v]))

xsearchKey(q) ==
    Then(take(q, <<ch.lparen>>), LAMBDA g :
      IF g.ok
      THEN Do(xsearchKey(g.p), LAMBDA sk : searchKeyGroupLoop(sk.p, <<sk.v>>))
      ELSE Then(takelist(q, searchKeyWords), LAMBDA w :
        IF ~w.ok
        THEN Do(xnumSet(q), LAMBDA seqs :
               Ok(seqs.p, [searchKey EXCEPT !.seqSet = Ptr(seqs.v)]))
        ELSE IF w.v \notin searchArgOps
        THEN Ok(w.p, [searchKey EXCEPT !.op = w.v])
        ELSE Do(xspace(w.p), LAMBDA s :
               searchKeyArg(s.p, [searchKey EXCEPT !.op = w.v]))))

(***************************************************************************)
(* Mailbox names, parse.go:411-427, and the modified UTF-7 of RFC 3501     *)
(* section 5.1.3 that utf7decode reads                                     *)
(***************************************************************************)

capIMAP4rev2 == "IMAP4rev2"

\* The alphabet of modified base64: A-Z a-z 0-9 + and the comma.
utf7chars ==
    << 65, 66, 67, 68, 69, 70, 71, 72, 73, 74, 75, 76, 77, 78, 79, 80,
       81, 82, 83, 84, 85, 86, 87, 88, 89, 90, 97, 98, 99, 100, 101,
       102, 103, 104, 105, 106, 107, 108, 109, 110, 111, 112, 113,
       114, 115, 116, 117, 118, 119, 120, 121, 122, 48, 49, 50, 51,
       52, 53, 54, 55, 56, 57, 43, 44 >>

utf7Error == [err |-> TRUE, v |-> <<>>]

utf7Value(c) == (CHOOSE k \in 1..64 : utf7chars[k] = c) - 1

\* The two sextets that hold the byte at bit offset off of the sextet j + 1.
utf7Byte(t, j, off) ==
    ((utf7Value(t[j + 1]) * 64 + utf7Value(t[j + 2]))
       \div (IF off = 0 THEN 16 ELSE IF off = 2 THEN 4 ELSE 1)) % 256

\* base64 decoding without padding: CR and LF are skipped, a byte outside
\* the alphabet or a single sextet left over is an error, the bits left
\* over of two or three sextets are dropped.
utf7Base64(b) ==
    Then(SelectSeq(b, LAMBDA c : c \notin {ch.cr, ch.lf}), LAMBDA t :
      IF (\E k \in 1..Len(t) : \A m \in 1..64 : utf7chars[m] # t[k])
         \/ Len(t) % 4 = 1
      THEN utf7Error
      ELSE [err |-> FALSE,
            v |-> [k \in 1..((Len(t) * 6) \div 8) |->
                     utf7Byte(t, (8 * (k - 1)) \div 6, (8 * (k - 1)) % 6)]])

\* The runes x[j], x[j + 1], ... as a string.
RECURSIVE utf7Runes(_, _)
utf7Runes(x, j) ==
    IF j > Len(x) THEN <<>> ELSE EncodeRune(x[j]) \o utf7Runes(x, j + 1)

\* One shifted run b: base64 of big endian 16 bit units, each unit a rune;
\* a run that holds no unit that needs the encoding is an error.
utf7Shifted(b) ==
    Then(utf7Base64(b), LAMBDA d :
      IF d.err \/ Len(d.v) % 2 # 0 THEN utf7Error
      ELSE Then([j \in 1..(Len(d.v) \div 2) |->
                   d.v[2 * j - 1] * 256 + d.v[2 * j]], LAMBDA x :
             IF \E j \in 1..Len(x) : x[j] < 32 \/ x[j] > 126 \/ x[j] = ch.amp
             THEN [err |-> FALSE, v |-> utf7Runes(x, 1)]
             ELSE utf7Error))

\* The loop of utf7decode over the runes of s from byte offset i: b is the
\* shifted run read so far, lastunshift the offset of the last "-" that
\* ended a run, r the result so far.
RECURSIVE utf7Loop(_, _, _, _, _, _)
utf7Loop(s, i, shifted, b, lastunshift, r) ==
    IF i >= Len(s)
    THEN IF shifted THEN utf7Error ELSE [err |-> FALSE, v |-> r]
    ELSE Then(DecodeRune(s, i), LAMBDA d :
           IF ~shifted
           THEN IF d.c # ch.amp
                THEN utf7Loop(s, i + d.size, FALSE, b, lastunshift, r \o d.str)
                ELSE IF lastunshift = i - 1 THEN utf7Error
                ELSE utf7Loop(s, i + d.size, TRUE, b, lastunshift, r)
           ELSE IF d.c # ch.minus
                THEN utf7Loop(s, i + d.size, TRUE, b \o d.str, lastunshift, r)
           ELSE IF b = <<>>
                THEN utf7Loop(s, i + d.size, FALSE, b, i, r \o <<ch.amp>>)
           ELSE Then(utf7Shifted(b), LAMBDA u :
                  IF u.err THEN utf7Error
                  ELSE utf7Loop(s, i + d.size, FALSE, <<>>, i, r \o u.v)))

\* utf7decode: the string that the modified UTF-7 of s stands for, or an
\* error.
utf7decode(s) == utf7Loop(s, 0, FALSE, <<>>, 0 - 2, <<>>)

\* p.conn.log.Infox: the name that did not decode is logged.
logged(conn, name) == [conn EXCEPT !.logs = Append(@, name)]

xmailbox(q) ==
    Do(xastring(q), LAMBDA s :
      IF capIMAP4rev2 \in s.p.conn.enabled THEN Ok(s.p, s.v)
      ELSE Then(utf7decode(s.v), LAMBDA ns :
             IF ns.err
             THEN Ok([s.p EXCEPT !.conn = logged(@, s.v)], s.v)
             ELSE Ok(s.p, ns.v)))

(***************************************************************************)
(* Tagged extensions                                                       *)
(***************************************************************************)

\* The bytes fn of xtaggedExtLabel accepts at i = 0 and at i > 0.
taggedExtLabelFirst == (ch.A .. ch.Z) \cup {ch.minus, ch.underscore, ch.dot}

taggedExtLabelRest == taggedExtLabelFirst \cup Digits \cup {ch.colon}

xtaggedExtLabel(q) == xtake1fn(q, taggedExtLabelFirst, taggedExtLabelRest)

\* The loop of xtaggedExtSimple: a range after each ",".
RECURSIVE taggedExtSimpleLoop(_)
taggedExtSimpleLoop(q) ==
    Then(take(q, <<ch.comma>>), LAMBDA t :
      IF ~t.ok THEN Ok(q, <<>>)
      ELSE Do(xnumRange(t.p), LAMBDA r : taggedExtSimpleLoop(r.p)))

\* After the number: ":" and "*" or a non-zero number, when there is a ":".
taggedExtSimpleLast(q) ==
    Then(take(q, <<ch.colon>>), LAMBDA c :
      IF ~c.ok THEN Ok(q, <<>>)
      ELSE Then(take(c.p, <<ch.star>>), LAMBDA s :
             IF s.ok THEN Ok(s.p, <<>>)
             ELSE Do(xnznumber(s.p), LAMBDA n : Ok(n.p, <<>>))))

\* xtaggedExtSimple: the digits, a numSet when there are none, and then
\* ParseInt of the digits in either case.
xtaggedExtSimple(q) ==
    Then(digits(q), LAMBDA s :
    Do(IF s.v = <<>> THEN xnumSet(s.p) ELSE Ok(s.p, <<>>), LAMBDA ns :
      IF ~ParseInt(s.v, 64).ok THEN xerrorf(ns.p, "parsing int: %v")
      ELSE Do(taggedExtSimpleLast(ns.p), LAMBDA l : taggedExtSimpleLoop(l.p))))

RECURSIVE xtaggedExtComp(_)
RECURSIVE taggedExtCompLoop(_)

\* The loop of xtaggedExtComp: a comp after each space.
taggedExtCompLoop(q) ==
    Then(space(q), LAMBDA s :
      IF ~s.ok THEN Ok(q, <<>>)
      ELSE Do(xtaggedExtComp(s.p), LAMBDA c : taggedExtCompLoop(c.p)))

xtaggedExtComp(q) ==
    Then(take(q, <<ch.lparen>>), LAMBDA t :
      IF t.ok
      THEN Do(xtaggedExtComp(t.p), LAMBDA c :
           Do(xtake(c.p, <<ch.rparen>>), LAMBDA e : Ok(e.p, <<>>)))
      ELSE Do(xastring(q), LAMBDA a : taggedExtCompLoop(a.p)))

xtaggedExtVal(q) ==
    Then(take(q, <<ch.lparen>>), LAMBDA t :
      IF ~t.ok THEN xtaggedExtSimple(q)
      ELSE Then(take(t.p, <<ch.rparen>>), LAMBDA e :
             IF e.ok THEN Ok(e.p, <<>>)
             ELSE Do(xtaggedExtComp(t.p), LAMBDA c :
                  Do(xtake(c.p, <<ch.rparen>>), LAMBDA r : Ok(r.p, <<>>)))))
(***************************************************************************)
(* The state machine: a parser p over one command line, and the last       *)
(* operation run on it with the parser before it, its error and its value. *)
(* A raised error ends the parse of the line.  stack holds the calls of    *)
(* an operation that runs step by step and have not returned; it is empty *)
(* while operations run as a whole.                                        *)
(***************************************************************************)

Running == ret.err.kind = "none"

newConn(wire, account) ==
    [wire |-> wire, calls |-> <<>>, prompts |-> 0, account |-> account,
     enabled |-> {}, logs |-> <<>>]

Start(line, conn, g) ==
    /\ p = newParser(line, conn)
    /\ ret = [op |-> "newParser", arg |-> <<>>, pre |-> newParser(line, conn),
              ok |-> TRUE, err |-> NoErr, v |-> <<>>]
    /\ given = g
    /\ stack = <<>>

\* An operation that raises or returns a value.
Raises(op, arg, r) ==
    /\ Running
    /\ stack = <<>>
    /\ \E x \in {r} :
         /\ p' = x.p
         /\ ret' = [op |-> op, arg |-> arg, pre |-> p, ok |-> ~Failed(x),
                    err |-> x.err, v |-> x.v]
    /\ UNCHANGED <<given, stack>>

\* A predicate: it answers whether it matched, and never raises.
Answers(op, arg, r) ==
    /\ Running
    /\ stack = <<>>
    /\ \E x \in {r} :
         /\ p' = x.p
         /\ ret' = [op |-> op, arg |-> arg, pre |-> p, ok |-> x.ok,
                    err |-> NoErr, v |-> IF "v" \in DOMAIN x THEN x.v ELSE <<>>]
    /\ UNCHANGED <<given, stack>>

\* The sequences over S of length at most n.
RECURSIVE SeqsUpTo(_, _)
SeqsUpTo(S, n) ==
    IF n = 0 THEN {<<>>}
    ELSE Then(SeqsUpTo(S, n - 1), LAMBDA shorter :
           shorter \cup {Append(x, b) : x \in {y \in shorter : Len(y) = n - 1},
                                        b \in S})

\* Every casing of the letters of s.
RECURSIVE Casings(_)
Casings(s) ==
    IF s = <<>> THEN {<<>>}
    ELSE { <<c>> \o t : c \in {s[1], toUpper(<<s[1]>>)[1], ToLower(<<s[1]>>)[1]},
                        t \in Casings(Tail(s)) }

(***************************************************************************)
(* Strings and literals: the lines are literal headers and quoted strings, *)
(* the wire holds the octets and lines the client sends next.              *)
(***************************************************************************)

MaxBody == 2

MaxQuoted == 4

LiteralDigits ==
    { <<>>, <<48>>, <<49>>, <<50>>, <<51>>, <<48, 50>>,
      <<49, 48, 50, 52, 48, 48>>,            \* 102400
      <<49, 48, 50, 52, 48, 49>>,            \* 102401
      <<57, 50, 50, 51, 51, 55, 50, 48, 51, 54, 56, 53, 52, 55, 55, 53, 56,
        48, 56>> }                           \* 9223372036854775808

LiteralLines ==
    { pre \o <<ch.lbrace>> \o d \o plus \o close \o trail :
        pre \in {<<>>, <<ch.tilde>>},
        d \in LiteralDigits,
        plus \in {<<>>, <<ch.plus>>},
        close \in {<<>>, <<ch.rbrace>>},
        trail \in {<<>>, <<ch.sp>>} }

WireTails ==
    { <<>>,
      CRLF,
      <<98, 255, 123>> \o CRLF,                          \* b 0xFF {
      <<123, 49, 43, 125>> \o CRLF \o <<122>> \o CRLF }  \* {1+} CRLF z CRLF

Wires == { b \o t : b \in SeqsUpTo({ch.nul, ch.a, ch.cr}, MaxBody), t \in WireTails }

QuotedLines ==
    { <<ch.dquote>> \o x :
        x \in SeqsUpTo({ch.dquote, ch.bslash, ch.a, ch.cr, 195, 169}, MaxQuoted) }

LiteralMaxSizes == {0 - 1, 0, 2, maxLiteralSize}

InitString ==
    \/ \E line \in LiteralLines, wire \in Wires :
         Start(line, newConn(wire, FALSE), <<>>)
    \/ \E line \in QuotedLines, account \in BOOLEAN :
         Start(line, newConn(<<>>, account), <<>>)

XString == Raises("xstring", <<>>, xstring(p))

XAstring == Raises("xastring", <<>>, xastring(p))

XNilString == Raises("xnilString", <<>>, xnilString(p))

XLiteralSize(maxSize, lit8) ==
    Raises("xliteralSize", [maxSize |-> maxSize, lit8 |-> lit8],
           xliteralSize(p, maxSize, lit8))

NextString ==
    \/ XString
    \/ XAstring
    \/ XNilString
    \/ \E maxSize \in LiteralMaxSizes, lit8 \in BOOLEAN : XLiteralSize(maxSize, lit8)

SpecString == InitString /\ [][NextString]_vars

(***************************************************************************)
(* Flags: the lines are flags in every casing, alone and in a list.        *)
(***************************************************************************)

FlagWords ==
    UNION { Casings(f) : f \in systemFlags }
    \cup Casings(<<92, 102, 111, 111>>) \cup Casings(<<36, 115, 101, 101, 110>>) \cup Casings(<<115, 101, 101, 110>>)   \* "\foo" "$seen" "seen"
    \cup { <<>>, <<92>>, <<92, 115, 101, 101, 110, 40>>, <<92, 42>> }   \* "\" "\seen(" "\*"

FlagLists ==
    { <<ch.lparen>> \o l \o <<ch.rparen>> :
        l \in { <<>>, <<92, 83, 101, 101, 110>>, <<92, 83, 101, 101, 110, 32, 92, 100, 114, 97, 102, 116>>, <<92, 83, 69, 69, 78, 32, 36, 120, 32, 92, 70, 111, 111>>, <<92, 115, 101, 101, 110, 32, 32, 120>>,   \* "\Seen" "\Seen \draft" "\SEEN $x \Foo" "\seen  x"
                <<92, 115, 101, 101, 110, 92, 100, 114, 97, 102, 116>>, <<120, 32, 121, 32, 122>> } }   \* "\seen\draft" "x y z"

InitFlag == \E line \in FlagWords \cup FlagLists : Start(line, newConn(<<>>, FALSE), <<>>)

XFlag == Raises("xflag", <<>>, xflag(p))

XFlagList == Raises("xflagList", <<>>, xflagList(p))

XAtom == Raises("xatom", <<>>, xatom(p))

NextFlag == XFlag \/ XFlagList \/ XAtom

SpecFlag == InitFlag /\ [][NextFlag]_vars

(***************************************************************************)
(* Tags and commands: the lines are command names in every casing.         *)
(***************************************************************************)

CommandNames == { <<110, 111, 111, 112>>, <<108, 111, 103, 105, 110>>, <<117, 105, 100>>, <<117, 105, 100, 32, 99, 111, 112, 121>>, <<117, 105, 100, 32, 32, 120>>, <<97, 32, 117, 105, 100, 32, 98>> }   \* "noop" "login" "uid" "uid copy" "uid  x" "a uid b"

CommandTails == { <<>>, <<32>>, <<32, 120>>, <<49>>, <<43>> }   \* " " " x" "1" "+"

CommandLines == { n \o t : n \in UNION { Casings(c) : c \in CommandNames },
                           t \in CommandTails }

InitCommand == \E line \in CommandLines : Start(line, newConn(<<>>, FALSE), <<>>)

XCommand == Raises("xcommand", <<>>, xcommand(p))

XTag == Raises("xtag", <<>>, xtag(p))

XSpace == Raises("xspace", <<>>, xspace(p))

NextCommand == XCommand \/ XTag \/ XSpace

SpecCommand == InitCommand /\ [][NextCommand]_vars

(***************************************************************************)
(* The predicates of the cursor: the lines are digit runs, NIL and the     *)
(* start of strings.                                                       *)
(***************************************************************************)

CursorHeads ==
    { <<>>, <<48>>, <<48, 48>>, <<49>>, <<48, 49>>, <<52, 50, 57, 52, 57, 54, 55, 50, 57, 53>>, <<52, 50, 57, 52, 57, 54, 55, 50, 57, 54>>,   \* "0" "00" "1" "01" "4294967295" "4294967296"
      <<49, 56, 52, 52, 54, 55, 52, 52, 48, 55, 51, 55, 48, 57, 53, 53, 49, 54, 49, 54>>, <<78, 73, 76>>, <<110, 105, 108>>, <<78, 73>>, <<34, 97>>, <<34, 97, 34>>, <<123, 49, 125>>,   \* "18446744073709551616" "NIL" "nil" "NI" ""a" ""a"" "{1}"
      <<32>>, <<43>> }   \* " " "+"

CursorTails == { <<>>, <<32>>, <<55>>, <<120>> }   \* " " "7" "x"

CursorLines == { h \o t : h \in CursorHeads, t \in CursorTails }

TakeWords == { <<78, 73, 76>>, <<48>>, <<32, 55>>, <<52, 50, 57, 52, 57, 54, 55, 50, 57, 54>>, <<>> }   \* "NIL" "0" " 7" "4294967296"

TakeLists == { << <<78, 73>>, <<78, 73, 76>> >>, << <<43>>, <<45>> >>, << <<48, 48>>, <<48>>, <<49>> >>, <<>> }   \* "NI" "NIL" "+" "-" "00" "0" "1"

InitCursor ==
    \E line \in CursorLines, wire \in {<<>>, <<97>> \o CRLF} :   \* "a"
      Start(line, newConn(wire, FALSE), <<>>)

Take(s) == Answers("take", s, take(p, s))

Takelist(l) == Answers("takelist", l, takelist(p, l))

Space == Answers("space", <<>>, space(p))

Nznumber == Answers("nznumber", <<>>, nznumber(p))

Number == Answers("number", <<>>, number(p))

Digit == Answers("digit", <<>>, digit(p))

NextCursor ==
    \/ \E s \in TakeWords : Take(s)
    \/ \E l \in TakeLists : Takelist(l)
    \/ Space
    \/ Nznumber
    \/ Number
    \/ Digit
    \/ XNilString

SpecCursor == InitCursor /\ [][NextCursor]_vars

(***************************************************************************)
(* Keywords: the lines are the words of the parser's lists, in upper and   *)
(* lower case, cut short and followed by what may come after them.         *)
(***************************************************************************)

KeywordLists == {fetchAttWords, searchKeyWords, msgtextWords, statusAttWords,
                 fetchMacroWords}

\* The words of a list.
Words(l) == { l[i] : i \in DOMAIN l }

KeywordTails ==
    { <<>>, <<32>>, <<91, 93>>, <<91, 49, 93>>, <<91, 84, 69, 88, 84, 93, 60, 48, 46, 49, 62>>, <<91, 72, 69, 65, 68, 69, 82, 46, 70, 73, 69, 76, 68, 83, 32, 40, 97, 32, 66, 41, 93>>,   \* " " "[]" "[1]" "[TEXT]<0.1>" "[HEADER.FIELDS (a B)]"
      <<91, 49, 46, 72, 69, 65, 68, 69, 82, 46, 70, 73, 69, 76, 68, 83, 46, 78, 79, 84, 32, 40, 97, 41, 93>>, <<91, 49, 46, 77, 73, 77, 69, 93, 60, 49, 46, 50, 62>>, <<46, 80, 69, 69, 75, 91, 93>>, <<46, 80, 69, 69, 75>>,   \* "[1.HEADER.FIELDS.NOT (a)]" "[1.MIME]<1.2>" ".PEEK[]" ".PEEK"
      <<46, 83, 73, 90, 69, 91, 49, 93>>, <<83, 84, 82, 85, 67, 84, 85, 82, 69>>, <<83>>, <<32, 120>>, <<32, 49, 58, 42>>, <<32, 78, 79, 84, 32, 83, 69, 69, 78>>,   \* ".SIZE[1]" "STRUCTURE" "S" " x" " 1:*" " NOT SEEN"
      <<32, 49, 45, 106, 97, 110, 45, 50, 48, 50, 52>>, <<46, 78, 79, 84, 32, 40, 120, 41>>, <<32, 40, 120, 32, 121, 41>> }   \* " 1-jan-2024" ".NOT (x)" " (x y)"

KeywordLines ==
    { c \o t : c \in UNION { {w, ToLower(w), SubSeq(w, 1, Len(w) - 1)} :
                             w \in UNION { Words(l) : l \in KeywordLists } },
               t \in KeywordTails }

InitKeyword == \E line \in KeywordLines : Start(line, newConn(<<>>, FALSE), <<>>)

XFetchAtt == Raises("xfetchAtt", <<>>, xfetchAtt(p))

XFetchAtts == Raises("xfetchAtts", <<>>, xfetchAtts(p))

XSearchKey == Raises("xsearchKey", <<>>, xsearchKey(p))

XSectionMsgtext == Raises("xsectionMsgtext", <<>>, xsectionMsgtext(p))

XStatusAtt == Raises("xstatusAtt", <<>>, xstatusAtt(p))

NextKeyword ==
    \/ XFetchAtt
    \/ XFetchAtts
    \/ XSearchKey
    \/ XSectionMsgtext
    \/ XStatusAtt
    \/ \E l \in KeywordLists : Takelist(l)

SpecKeyword == InitKeyword /\ [][NextKeyword]_vars

(***************************************************************************)
(* Sequence sets: the line is the text of a numSet in the grammar.         *)
(***************************************************************************)

MaxRanges == 2

\* 4294967295
MaxUint32 == <<65535, 65535, 0, 0>>

Endpoints ==
    { setNumber(Zero, TRUE), setNumber(NumOf(1), FALSE),
      setNumber(NumOf(65536), FALSE), setNumber(MaxUint32, FALSE) }

NumRanges ==
    { [first |-> f, last |-> l] :
        f \in Endpoints, l \in {Nil} \cup { Ptr(e) : e \in Endpoints } }

NumSets ==
    { [searchResult |-> TRUE, ranges |-> <<>>] }
    \cup { [searchResult |-> FALSE, ranges |-> r] :
             r \in SeqsUpTo(NumRanges, MaxRanges) \ {<<>>} }

\* seq-number: "*" or the number in decimal.
RenderNumber(n) == IF n.star THEN <<ch.star>> ELSE FormatUint(n.number)

\* seq-range: first, or first ":" last.
RenderRange(r) ==
    IF r.last = Nil THEN RenderNumber(r.first)
    ELSE RenderNumber(r.first) \o <<ch.colon>> \o RenderNumber(r.last[1])

\* sequence-set: "$", or the ranges joined by ",".
RECURSIVE RenderRanges(_)
RenderRanges(l) ==
    IF Len(l) = 1 THEN RenderRange(l[1])
    ELSE RenderRange(l[1]) \o <<ch.comma>> \o RenderRanges(Tail(l))

Render(s) == IF s.searchResult THEN <<ch.dollar>> ELSE RenderRanges(s.ranges)

InitNumSet ==
    \E s \in NumSets, tail \in {<<>>, <<32>>, <<44>>, <<58, 49>>} :   \* " " "," ":1"
      Start(Render(s) \o tail, newConn(<<>>, FALSE), [set |-> s, tail |-> tail])

XNumSet == Raises("xnumSet", <<>>, xnumSet(p))

XNumRange == Raises("xnumRange", <<>>, xnumRange(p))

XEmpty == Raises("xempty", <<>>, xempty(p))

NextNumSet == XNumSet \/ XNumRange \/ XEmpty

SpecNumSet == InitNumSet /\ [][NextNumSet]_vars

(***************************************************************************)
(* Tagged extensions: the line is a tagged-ext value.  given tells how the *)
(* line was made: from a digit run, from a numSet that starts without a    *)
(* digit, or from a parenthesised comp; and whether the grammar has it.    *)
(***************************************************************************)

\* Digit runs: the first four fit a signed 64-bit integer.
ExtDigitsValid == {<<48>>, <<55>>, <<52, 50, 57, 52, 57, 54, 55, 50, 57, 54>>, <<57, 50, 50, 51, 51, 55, 50, 48, 51, 54, 56, 53, 52, 55, 55, 53, 56, 48, 55>>}   \* "0" "7" "4294967296" "9223372036854775807"

ExtDigitsTooBig == {<<57, 50, 50, 51, 51, 55, 50, 48, 51, 54, 56, 53, 52, 55, 55, 53, 56, 48, 56>>, <<49, 56, 52, 52, 54, 55, 52, 52, 48, 55, 51, 55, 48, 57, 53, 53, 49, 54, 49, 54>>}   \* "9223372036854775808" "18446744073709551616"

\* What may follow the digit run: nothing, ":*" or ":nz-number".
ExtLastValid == {<<>>, <<58, 42>>, <<58, 53>>, <<58, 52, 50, 57, 52, 57, 54, 55, 50, 57, 53>>}   \* ":*" ":5" ":4294967295"

ExtLastInvalid == {<<58, 48>>, <<58, 52, 50, 57, 52, 57, 54, 55, 50, 57, 54>>, <<58>>}   \* ":0" ":4294967296" ":"

\* Further ",numRange" items.
ExtRangesValid == {<<>>, <<44, 49>>, <<44, 42, 58, 53>>, <<44, 50, 58, 51, 44, 42>>}   \* ",1" ",*:5" ",2:3,*"

ExtRangesInvalid == {<<44>>, <<44, 48>>, <<44, 49, 58>>}   \* "," ",0" ",1:"

\* numSets that start without a digit.
ExtNumSets == {<<36>>, <<42>>, <<42, 58, 53>>, <<42, 58, 42, 44, 49>>, <<42, 44, 50, 58, 51>>}   \* "$" "*" "*:5" "*:*,1" "*,2:3"

ExtComps == {<<40, 41>>, <<40, 97, 41>>, <<40, 97, 32, 98, 41>>, <<40, 40, 97, 41, 32, 98, 41>>, <<40>> \o <<ch.dquote, ch.dquote>> \o <<32, 123, 49, 125, 41>>, <<40, 97>>, <<40, 97, 32, 32, 98, 41>>, <<40, 40, 41, 41>>}   \* "()" "(a)" "(a b)" "((a) b)" "(" " {1})" "(a" "(a  b)" "(())"

ExtLabels == {<<88, 45, 65>>, <<120, 46, 98, 95, 49, 58, 50, 32>>, <<49, 65>>, <<>>}   \* "X-A" "x.b_1:2 " "1A" ""

InitTaggedExt ==
    \/ \E d \in ExtDigitsValid, l \in ExtLastValid, r \in ExtRangesValid :
         Start(d \o l \o r, newConn(<<>>, FALSE), [form |-> "digits", valid |-> TRUE])
    \/ \E d \in ExtDigitsValid \cup ExtDigitsTooBig,
          l \in ExtLastValid \cup ExtLastInvalid,
          r \in ExtRangesValid \cup ExtRangesInvalid :
         /\ d \in ExtDigitsTooBig \/ l \in ExtLastInvalid \/ r \in ExtRangesInvalid
         /\ Start(d \o l \o r, newConn(<<>>, FALSE), [form |-> "digits", valid |-> FALSE])
    \/ \E s \in ExtNumSets :
         Start(s, newConn(<<>>, FALSE), [form |-> "numSet", valid |-> TRUE])
    \/ \E s \in ExtComps \cup ExtLabels :
         Start(s, newConn(<<98>> \o CRLF \o CRLF, FALSE), [form |-> "other", valid |-> FALSE])   \* "b"

XTaggedExtSimple == Raises("xtaggedExtSimple", <<>>, xtaggedExtSimple(p))

XTaggedExtVal == Raises("xtaggedExtVal", <<>>, xtaggedExtVal(p))

XTaggedExtComp == Raises("xtaggedExtComp", <<>>, xtaggedExtComp(p))

XTaggedExtLabel == Raises("xtaggedExtLabel", <<>>, xtaggedExtLabel(p))

NextTaggedExt ==
    XTaggedExtSimple \/ XTaggedExtVal \/ XTaggedExtComp \/ XTaggedExtLabel \/ XNumSet

SpecTaggedExt == InitTaggedExt /\ [][NextTaggedExt]_vars

(***************************************************************************)
(* Zones and times: the line is a sign and a field of four bytes, a time,  *)
(* or a quoted date-time.                                                  *)
(***************************************************************************)

ZoneSigns == {<<43>>, <<45>>, <<32>>, <<>>, <<90>>}   \* "+" "-" " " "" "Z"

ZoneFields ==
    {<<48, 48, 48, 48>>, <<48, 49, 48, 48>>, <<48, 53, 51, 48>>, <<49, 50, 53, 57>>, <<57, 57, 57, 57>>, <<48, 48, 54, 48>>, <<43, 49, 50, 51>>, <<45, 49, 50, 51>>,   \* "0000" "0100" "0530" "1259" "9999" "0060" "+123" "-123"
     <<43, 48, 48, 48>>, <<45, 48, 53, 57>>, <<49, 50, 97, 52>>, <<49, 50, 51>>, <<49, 50, 51, 52, 53>>, <<32, 49, 50, 51>>, <<49, 32, 50, 51>>, <<43, 43, 49, 50>>}   \* "+000" "-059" "12a4" "123" "12345" " 123" "1 23" "++12"

ZoneLines == { s \o f : s \in ZoneSigns, f \in ZoneFields }

TimeLines == {<<49, 50, 58, 51, 52, 58, 53, 54>>, <<48, 48, 58, 48, 48, 58, 48, 48>>, <<49, 58, 50, 58, 51>>, <<49, 50, 58, 51, 52>>, <<43, 49, 58, 45, 50, 58, 43, 51>>, <<57, 57, 58, 57, 57, 58, 57, 57>>}   \* "12:34:56" "00:00:00" "1:2:3" "12:34" "+1:-2:+3" "99:99:99"

DateTimeLines ==
    { <<ch.dquote>> \o d \o <<45, 74, 97, 110, 45, 50, 48, 50, 52, 32>> \o <<48, 49, 58, 48, 50, 58, 48, 51, 32>> \o z \o <<ch.dquote>> :   \* "-Jan-2024 " "01:02:03 "
        d \in {<<48, 49>>, <<32, 49>>, <<49>>, <<43, 49>>}, z \in {<<43, 48, 49, 48, 48>>, <<45, 48, 53, 51, 48>>, <<43, 43, 49, 50, 51>>, <<48, 49, 48, 48>>} }   \* "01" " 1" "1" "+1" "+0100" "-0530" "++123" "0100"

InitZone ==
    \E l \in ZoneLines \cup TimeLines \cup DateTimeLines :
      Start(l, newConn(<<>>, FALSE), <<>>)

XZone == Raises("xzone", <<>>, xzone(p))

XTime == Raises("xtime", <<>>, xtime(p))

XDateTime == Raises("xdateTime", <<>>, xdateTime(p))

NextZone == XZone \/ XTime \/ XDateTime

SpecZone == InitZone /\ [][NextZone]_vars

(***************************************************************************)
(* Whole lines: every operation of the parser, in any order, on command    *)
(* lines with the lines that follow their literals on the wire.            *)
(***************************************************************************)

OffsetLines ==
    { <<97, 49, 32, 85, 73, 68, 32, 70, 69, 84, 67, 72, 32, 49, 58, 42, 32, 40, 70, 76, 65, 71, 83, 32, 66, 79, 68, 89, 46, 80, 69, 69, 75, 91, 72, 69, 65, 68, 69, 82, 46, 70, 73, 69, 76, 68, 83, 32, 40, 70, 114, 111, 109, 32, 123, 50, 43, 125>>,   \* "a1 UID FETCH 1:* (FLAGS BODY.PEEK[HEADER.FIELDS (From {2+}"
      <<120, 32, 83, 69, 65, 82, 67, 72, 32, 40, 79, 82, 32, 78, 79, 84, 32, 83, 69, 69, 78, 32, 66, 67, 67, 32, 123, 49, 125>>,   \* "x SEARCH (OR NOT SEEN BCC {1}"
      <<116, 32, 83, 84, 79, 82, 69, 32, 55, 32, 40, 92, 83, 101, 101, 110, 32, 36, 120, 41, 32, 78, 73, 76>>,   \* "t STORE 7 (\Seen $x) NIL"
      <<ch.dquote>> \o <<49, 50, 45, 74, 97, 110, 45, 50, 48, 50, 52, 32, 48, 49, 58, 48, 50, 58, 48, 51, 32, 43>>,   \* "12-Jan-2024 01:02:03 +"
      <<43, 48, 49, 48, 48>> \o <<ch.dquote>> \o <<32, 43, 49, 50>>,   \* "+0100" " +12"
      <<38, 65, 79, 107, 45, 32, 97, 38, 98>>,   \* "&AOk- a&b"
      <<123, 51, 125>>,   \* "{3}"
      <<126, 123, 48, 125, 32, 123, 48, 125>>,   \* "~{0} {0}"
      <<40, 97, 32, 40, 98, 41, 32>> \o <<ch.dquote, ch.bslash, ch.dquote, ch.dquote>> \o <<41, 32, 88, 45, 65>>,   \* "(a (b) " ") X-A"
      <<49, 50, 58, 42, 44, 53, 32, 36, 32, 91, 49, 46, 50, 46, 77, 73, 77, 69, 93, 60, 48, 46, 57, 62>>,   \* "12:*,5 $ [1.2.MIME]<0.9>"
      <<>> }

OffsetWires ==
    { <<>>,
      <<84, 111>>,   \* "To"
      <<84, 111>> \o CRLF \o <<41, 93, 60, 48, 46, 53, 62, 41>> \o CRLF,   \* "To" ")]<0.5>)"
      <<122>> \o CRLF \o <<32, 49, 45, 106, 97, 110, 45, 50, 48, 50, 52, 41>> \o CRLF,   \* "z" " 1-jan-2024)"
      CRLF \o <<123, 48, 125>> \o CRLF \o <<123, 48, 125>> \o CRLF,   \* "{0}" "{0}"
      <<97, 98>> \o <<ch.nul>> \o CRLF \o <<123, 51, 125>> \o CRLF \o <<123, 51, 125>> \o CRLF }   \* "ab" "{3}" "{3}"

TakenCounts == {0, 1, 4}

\* The connections: IMAP4rev2 is enabled on two of them.
OffsetConns ==
    { newConn(wire, FALSE) : wire \in OffsetWires }
      \cup { [newConn(wire, FALSE) EXCEPT !.enabled = {capIMAP4rev2}] :
               wire \in {<<>>, <<84, 111>> \o CRLF \o <<41, 93, 60, 48, 46, 53, 62, 41>> \o CRLF} }   \* "To" ")]<0.5>)"

InitOffset ==
    \E line \in OffsetLines, conn \in OffsetConns : Start(line, conn, <<>>)

XTaken(n) == Raises("xtaken", n, xtaken(p, n))

XTakeall == Raises("xtakeall", <<>>, xtakeall(p))

XNumber64 == Raises("xnumber64", <<>>, xnumber64(p))

XDate == Raises("xdate", <<>>, xdate(p))

XMboxOrPat == Raises("xmboxOrPat", <<>>, xmboxOrPat(p))

XSection == Raises("xsection", <<>>, xsection(p))

XSectionBinary == Raises("xsectionBinary", <<>>, xsectionBinary(p))

XPartial == Raises("xpartial", <<>>, xpartial(p))

XMailbox == Raises("xmailbox", <<>>, xmailbox(p))

NextOffset ==
    \/ NextString
    \/ NextFlag
    \/ NextCommand
    \/ NextCursor
    \/ NextKeyword
    \/ NextNumSet
    \/ NextTaggedExt
    \/ NextZone
    \/ \E n \in TakenCounts : XTaken(n)
    \/ XTakeall
    \/ XNumber64
    \/ XDate
    \/ XMboxOrPat
    \/ XSection
    \/ XSectionBinary
    \/ XPartial
    \/ XMailbox

SpecOffset == InitOffset /\ [][NextOffset]_vars

(***************************************************************************)
(* The loops and the recursion, step by step.  A call of xflagList,        *)
(* xmboxOrPat, xsectionMsgtext, xfetchAtts, xnumSet, xsearchKey or         *)
(* xtaggedExtComp is a frame on the stack: the function, where it is (pc), *)
(* and for the record what was left to read when it was called (at), when  *)
(* its loop last began an iteration (it, -1 before the first), and when it *)
(* last called (sub); back tells that the call has just returned.  A step  *)
(* runs the top frame up to the head of its loop, to its next recursive    *)
(* call, or to its return; the parsers it calls that are no frames run as  *)
(* a whole.  A panic empties the stack.                                    *)
(***************************************************************************)

\* What is left to read: the rest of the line and the bytes on the wire.
Measure(q) == Len(q.conn.wire) + Len(q.orig) - q.o

Frame(fn, q) ==
    [fn |-> fn, pc |-> "start", at |-> Measure(q), it |-> 0 - 1, sub |-> 0 - 1,
     back |-> FALSE]

Top == stack[Len(stack)]

\* The heads of the loops.
LoopHeads == {"loop", "group"}

\* The functions that defer the pop of a context.
ContextFns == {"xsectionMsgtext", "xfetchAtts", "xnumSet"}

\* A step ends at pc of the same call, with a call of fn first when call is
\* not empty; r is what the parsers run in the step have left.
StepTo(r, pc) == [p |-> r.p, err |-> r.err, go |-> pc, call |-> ""]

StepCall(r, fn, pc) == [p |-> r.p, err |-> r.err, go |-> pc, call |-> fn]

StepReturn(r) == StepTo(r, "return")

xflagListStep(pc, q) ==
    IF pc = "start"
    THEN StepTo(Do(xtake(q, <<ch.lparen>>), LAMBDA o :
                  IF ~hasPrefix(o.p, <<ch.rparen>>) THEN xflag(o.p)
                  ELSE Ok(o.p, <<>>)), "loop")
    ELSE Then(take(q, <<ch.rparen>>), LAMBDA t :
           IF t.ok THEN StepReturn(Ok(t.p, <<>>))
           ELSE StepTo(Do(xspace(q), LAMBDA s : xflag(s.p)), "loop"))

xmboxOrPatStep(pc, q) ==
    IF pc = "start"
    THEN Then(take(q, <<ch.lparen>>), LAMBDA t :
           IF ~t.ok THEN StepReturn(xlistMailbox(q))
           ELSE StepTo(xlistMailbox(t.p), "loop"))
    ELSE Then(take(q, <<ch.rparen>>), LAMBDA t :
           IF t.ok THEN StepReturn(Ok(t.p, <<>>))
           ELSE StepTo(Do(xspace(q), LAMBDA s : xlistMailbox(s.p)), "loop"))

xsectionMsgtextStep(pc, q) ==
    IF pc = "start"
    THEN Then(xtakelist(context(q, "sectionMsgtext"), msgtextWords), LAMBDA w :
           IF Failed(w) \/ ~HasPrefix(w.v, kwHEADER_FIELDS) THEN StepReturn(w)
           ELSE StepTo(Do(xspace(w.p), LAMBDA s :
                       Do(xtake(s.p, <<ch.lparen>>), LAMBDA o : xastring(o.p))),
                       "loop"))
    ELSE Then(take(q, <<ch.rparen>>), LAMBDA t :
           IF t.ok THEN StepReturn(Ok(t.p, <<>>))
           ELSE StepTo(Do(xspace(q), LAMBDA s : xastring(s.p)), "loop"))

xfetchAttsStep(pc, q) ==
    IF pc = "start"
    THEN Then(takelist(context(q, "fetchAtts"), fetchMacroWords), LAMBDA w :
           IF w.ok THEN StepReturn(Ok(w.p, <<>>))
           ELSE IF ~hasPrefix(w.p, <<ch.lparen>>) THEN StepReturn(xfetchAtt(w.p))
           ELSE StepTo(xtake(w.p, <<ch.lparen>>), "loop"))
    ELSE Then(xfetchAtt(q), LAMBDA a :
           IF Failed(a) THEN StepReturn(a)
           ELSE Then(take(a.p, <<ch.sp>>), LAMBDA t :
                  IF t.ok THEN StepTo(Ok(t.p, <<>>), "loop")
                  ELSE StepReturn(xtake(a.p, <<ch.rparen>>))))

xnumSetStep(pc, q) ==
    IF pc = "start"
    THEN Then(take(context(q, "numSet"), <<ch.dollar>>), LAMBDA t :
           IF t.ok THEN StepReturn(Ok(t.p, <<>>))
           ELSE StepTo(xnumRange(t.p), "loop"))
    ELSE Then(take(q, <<ch.comma>>), LAMBDA t :
           IF ~t.ok THEN StepReturn(Ok(q, <<>>))
           ELSE StepTo(xnumRange(t.p), "loop"))

\* xsearchKey: "group" is the head of the loop of a parenthesised group,
\* "or" is between the two keys of OR, "end" is after the last key of NOT
\* and OR.
xsearchKeyStep(pc, q) ==
    IF pc = "start"
    THEN Then(take(q, <<ch.lparen>>), LAMBDA g :
           IF g.ok THEN StepCall(Ok(g.p, <<>>), "xsearchKey", "group")
           ELSE Then(takelist(q, searchKeyWords), LAMBDA w :
             IF ~w.ok THEN StepReturn(xnumSet(q))
             ELSE IF w.v \notin searchArgOps THEN StepReturn(Ok(w.p, <<>>))
             ELSE Then(xspace(w.p), LAMBDA s :
                    IF Failed(s) THEN StepReturn(s)
                    ELSE IF w.v = kwNOT THEN StepCall(s, "xsearchKey", "end")
                    ELSE IF w.v = kwOR THEN StepCall(s, "xsearchKey", "or")
                    ELSE StepReturn(searchKeyArg(s.p, [searchKey EXCEPT !.op = w.v])))))
    ELSE IF pc = "group"
    THEN Then(take(q, <<ch.rparen>>), LAMBDA t :
           IF t.ok THEN StepReturn(Ok(t.p, <<>>))
           ELSE Then(xspace(q), LAMBDA s :
                  IF Failed(s) THEN StepReturn(s)
                  ELSE StepCall(s, "xsearchKey", "group")))
    ELSE IF pc = "or"
    THEN Then(xspace(q), LAMBDA s :
           IF Failed(s) THEN StepReturn(s)
           ELSE StepCall(s, "xsearchKey", "end"))
    ELSE StepReturn(Ok(q, <<>>))

\* xtaggedExtComp: "close" is after the comp in parentheses, "loop" is the
\* head of the loop over the spaces.
xtaggedExtCompStep(pc, q) ==
    IF pc = "start"
    THEN Then(take(q, <<ch.lparen>>), LAMBDA t :
           IF t.ok THEN StepCall(Ok(t.p, <<>>), "xtaggedExtComp", "close")
           ELSE StepTo(xastring(q), "loop"))
    ELSE IF pc = "close"
    THEN StepReturn(xtake(q, <<ch.rparen>>))
    ELSE Then(space(q), LAMBDA s :
           IF ~s.ok THEN StepReturn(Ok(q, <<>>))
           ELSE StepCall(Ok(s.p, <<>>), "xtaggedExtComp", "loop"))

\* The parser when the top frame returns or panics: its deferred pop of
\* the context has run.
Unwound(q) ==
    IF Top.fn \in ContextFns
    THEN [q EXCEPT !.contexts = SubSeq(@, 1, Len(@) - 1)]
    ELSE q

\* The top frame after a step from its pc to pc2.
Moved(pc2) ==
    [Top EXCEPT !.pc = pc2,
                !.it = IF Top.pc \in LoopHeads THEN Measure(p) ELSE @,
                !.back = FALSE]

\* The stack below the top frame.
Below == SubSeq(stack, 1, Len(stack) - 1)

\* The top frame takes the step r.
Advance(r) ==
    \E x \in {r} :
      IF x.err.kind # "none"
      THEN /\ p' = Unwound(x.p)
           /\ stack' = <<>>
           /\ ret' = [ret EXCEPT !.arg = "raised", !.ok = FALSE, !.err = x.err]
      ELSE IF x.call # ""
      THEN /\ p' = x.p
           /\ stack' = Below \o <<[Moved(x.go) EXCEPT !.sub = Measure(x.p)],
                                  Frame(x.call, x.p)>>
           /\ ret' = ret
      ELSE IF x.go = "return"
      THEN /\ p' = Unwound(x.p)
           /\ stack' = IF Below = <<>> THEN <<>>
                       ELSE [Below EXCEPT ![Len(Below)].back = TRUE]
           /\ ret' = IF Below = <<>> THEN [ret EXCEPT !.arg = "returned", !.ok = TRUE]
                     ELSE ret
      ELSE /\ p' = x.p
           /\ stack' = Below \o <<Moved(x.go)>>
           /\ ret' = ret

\* The top frame is a call of fn.
Runs(fn) == Running /\ stack # <<>> /\ Top.fn = fn

\* An entry point is called.
Call(fn) ==
    /\ Running
    /\ stack = <<>>
    /\ ret.op = "newParser"
    /\ stack' = <<Frame(fn, p)>>
    /\ ret' = [op |-> fn, arg |-> "running", pre |-> p, ok |-> FALSE,
               err |-> NoErr, v |-> <<>>]
    /\ UNCHANGED <<p, given>>

XFlagListStep == Runs("xflagList") /\ Advance(xflagListStep(Top.pc, p)) /\ UNCHANGED given

XMboxOrPatStep == Runs("xmboxOrPat") /\ Advance(xmboxOrPatStep(Top.pc, p)) /\ UNCHANGED given

XSectionMsgtextStep == Runs("xsectionMsgtext") /\ Advance(xsectionMsgtextStep(Top.pc, p)) /\ UNCHANGED given

XFetchAttsStep == Runs("xfetchAtts") /\ Advance(xfetchAttsStep(Top.pc, p)) /\ UNCHANGED given

XNumSetStep == Runs("xnumSet") /\ Advance(xnumSetStep(Top.pc, p)) /\ UNCHANGED given

XSearchKeyStep == Runs("xsearchKey") /\ Advance(xsearchKeyStep(Top.pc, p)) /\ UNCHANGED given

XTaggedExtCompStep == Runs("xtaggedExtComp") /\ Advance(xtaggedExtCompStep(Top.pc, p)) /\ UNCHANGED given

EntryPoints ==
    {"xflagList", "xmboxOrPat", "xsectionMsgtext", "xfetchAtts", "xnumSet",
     "xsearchKey", "xtaggedExtComp"}

StepLines ==
    { <<40, 41>>, <<40, 97, 41>>, <<40, 92, 83, 101, 101, 110, 32, 36, 120, 32, 121, 41>>, <<40, 97, 32, 98>>, <<40, 97, 32, 32, 98, 41>>, <<40, 92, 70, 111, 111, 41>>,   \* "()" "(a)" "(\Seen $x y)" "(a b" "(a  b)" "(\Foo)"
      <<40, 97, 32, 37, 42, 32, 123, 49, 125>>, <<97>>, <<40, 97, 32, 123, 48, 125>>,   \* "(a %* {1}" "a" "(a {0}"
      <<72, 69, 65, 68, 69, 82, 46, 70, 73, 69, 76, 68, 83, 32, 40, 97, 32, 98, 32, 99, 41>>, <<72, 69, 65, 68, 69, 82, 46, 70, 73, 69, 76, 68, 83, 46, 78, 79, 84, 32, 40, 97, 41>>, <<84, 69, 88, 84>>, <<72, 69, 65, 68, 69, 82, 46, 70, 73, 69, 76, 68, 83, 32, 40, 97, 32, 123, 49, 43, 125>>,   \* "HEADER.FIELDS (a b c)" "HEADER.FIELDS.NOT (a)" "TEXT" "HEADER.FIELDS (a {1+}"
      <<40, 85, 73, 68, 32, 70, 76, 65, 71, 83, 32, 66, 79, 68, 89, 91, 49, 93, 41>>, <<65, 76, 76>>, <<85, 73, 68>>, <<40, 85, 73, 68, 32, 32, 70, 76, 65, 71, 83, 41>>,   \* "(UID FLAGS BODY[1])" "ALL" "UID" "(UID  FLAGS)"
      <<40, 66, 79, 68, 89, 46, 80, 69, 69, 75, 91, 72, 69, 65, 68, 69, 82, 46, 70, 73, 69, 76, 68, 83, 32, 40, 97, 32, 98, 41, 93, 60, 48, 46, 49, 62, 32, 85, 73, 68>>, <<40, 66, 73, 78, 65, 82, 89, 91, 49, 46, 50, 93, 32, 82, 70, 67, 56, 50, 50, 41>>,   \* "(BODY.PEEK[HEADER.FIELDS (a b)]<0.1> UID" "(BINARY[1.2] RFC822)"
      <<49, 44, 50, 58, 51, 44, 42>>, <<36>>, <<49, 44, 44>>, <<42, 58, 42, 44, 55>>,   \* "1,2:3,*" "$" "1,," "*:*,7"
      <<40, 65, 76, 76, 32, 83, 69, 69, 78, 41>>, <<79, 82, 32, 78, 79, 84, 32, 83, 69, 69, 78, 32, 40, 49, 58, 50, 32, 85, 73, 68, 32, 51, 41>>, <<78, 79, 84, 32, 78, 79, 84, 32, 78, 79, 84, 32, 65, 76, 76>>, <<40, 40, 65, 76, 76, 41, 41>>,   \* "(ALL SEEN)" "OR NOT SEEN (1:2 UID 3)" "NOT NOT NOT ALL" "((ALL))"
      <<40, 79, 82, 32, 65, 76, 76>>, <<72, 69, 65, 68, 69, 82, 32, 97, 32, 123, 49, 125>>, <<40, 66, 67, 67, 32, 123, 49, 125>>, <<79, 82, 32, 40, 79, 82, 32, 65, 76, 76, 32, 65, 76, 76, 41, 32, 40, 78, 79, 84, 32, 40, 83, 69, 69, 78, 41, 41>>,   \* "(OR ALL" "HEADER a {1}" "(BCC {1}" "OR (OR ALL ALL) (NOT (SEEN))"
      <<40, 97, 32, 40, 98, 41, 32, 99, 41>>, <<97, 32, 98, 32, 99>>, <<40, 40, 97, 41>>, <<97, 32, 40, 98, 32, 99, 41, 32, 100>>, <<97, 32>>, <<40, 40, 40, 97, 32, 98, 41, 41, 41>>,   \* "(a (b) c)" "a b c" "((a)" "a (b c) d" "a " "(((a b)))"
      <<ch.dquote, ch.dquote, ch.sp, ch.dquote, ch.dquote>>, <<123, 48, 125>>, <<123, 48, 125, 32, 123, 48, 125>>,   \* "{0}" "{0} {0}"
      <<>> }

StepWires ==
    { <<>>,
      <<98>> \o CRLF \o <<32, 99, 41>> \o CRLF,   \* "b" " c)"
      CRLF \o <<123, 48, 125>> \o CRLF \o <<32, 123, 48, 125>> \o CRLF \o <<32, 41>> \o CRLF,   \* "{0}" " {0}" " )"
      <<98>> \o CRLF \o <<32, 65, 76, 76, 41, 32, 120>> \o CRLF }   \* "b" " ALL) x"

InitSteps ==
    \E line \in StepLines, wire \in StepWires :
      Start(line, newConn(wire, FALSE), <<>>)

NextSteps ==
    \/ \E fn \in EntryPoints : Call(fn)
    \/ XFlagListStep
    \/ XMboxOrPatStep
    \/ XSectionMsgtextStep
    \/ XFetchAttsStep
    \/ XNumSetStep
    \/ XSearchKeyStep
    \/ XTaggedExtCompStep

\* The parser runs on when it can: an entry point is called, and a call
\* that has not returned takes its next step.
SpecSteps == InitSteps /\ [][NextSteps]_vars /\ WF_vars(NextSteps)
(***************************************************************************)
(* Properties.  The reference operators below restate what a property      *)
(* expects in terms of the bytes of the line, apart from the parser.       *)
(***************************************************************************)

\* The decimal digits of the integer k >= 0.
RECURSIVE Decimal(_)
Decimal(k) ==
    IF k < 10 THEN <<ch.d0 + k>>
    ELSE Append(Decimal(k \div 10), ch.d0 + (k % 10))

\* The digits d without their leading zeros.
RECURSIVE StripZeros(_)
StripZeros(d) ==
    IF Len(d) > 1 /\ d[1] = ch.d0 THEN StripZeros(Tail(d)) ELSE d

\* a > b, for decimal numbers without leading zeros.
DecimalGreater(a, b) ==
    \/ Len(a) > Len(b)
    \/ /\ Len(a) = Len(b)
       /\ \E i \in 1..Len(a) : a[i] > b[i] /\ \A j \in 1..(i - 1) : a[j] = b[j]

\* The number that at most nine digits stand for.
RECURSIVE DecimalValue(_)
DecimalValue(d) ==
    IF d = <<>> THEN 0
    ELSE DecimalValue(SubSeq(d, 1, Len(d) - 1)) * 10 + (d[Len(d)] - ch.d0)

\* The number of digits of s from offset i on.
DigitRunLen(s, i) ==
    CHOOSE n \in 0..(Len(s) - i) :
      /\ \A k \in 1..n : IsDigit(s[i + k])
      /\ i + n = Len(s) \/ ~IsDigit(s[i + n + 1])

\* The digits of s from offset i on.
DigitRun(s, i) == Slice(s, i, i + DigitRunLen(s, i))

\* The first line of the bytes w is complete.
HasLine(w) == \E i \in 0..(Len(w) - 2) : Slice(w, i, i + 2) = CRLF

\* The first line of the bytes w, without its CRLF.
FirstLine(w) ==
    Slice(w, 0, CHOOSE i \in 0..(Len(w) - 2) :
                  /\ Slice(w, i, i + 2) = CRLF
                  /\ \A j \in 0..(i - 1) : Slice(w, j, j + 2) # CRLF)

\* The operations that parse a literal header.
LiteralOps == {"xliteralSize", "xstring", "xastring", "xnilString"}

\* The maximum size the last operation allowed, and whether it allowed "~".
LastMaxSize == IF ret.op = "xliteralSize" THEN ret.arg.maxSize ELSE maxLiteralSize

LastLit8 == ret.op = "xliteralSize" /\ ret.arg.lit8

\* The offset at which the last operation expected "{".
BraceAt ==
    IF /\ LastLit8
       /\ ret.pre.o < Len(ret.pre.orig)
       /\ ret.pre.orig[ret.pre.o + 1] = ch.tilde
    THEN ret.pre.o + 1
    ELSE ret.pre.o

\* The digits of the size in the header the last operation was given.
SizeDigits == StripZeros(DigitRun(ret.pre.orig, BraceAt + 1))

\* The last operation was given "{" and a size that fits 63 bits.
SizeParsed ==
    /\ BraceAt < Len(ret.pre.orig)
    /\ ret.pre.orig[BraceAt + 1] = ch.lbrace
    /\ DigitRunLen(ret.pre.orig, BraceAt + 1) > 0
    /\ ~DecimalGreater(SizeDigits, <<57, 50, 50, 51, 51, 55, 50, 48, 51, 54, 56, 53, 52, 55, 55, 53, 56, 48, 55>>)   \* "9223372036854775807"

\* The untagged line of a TOOBIG error.
ExpectedTooBigLine ==
    <<42, 32, 66, 89, 69, 32, 91, 65, 76, 69, 82, 84, 93, 32, 77, 97, 120, 32, 108, 105, 116, 101, 114, 97, 108, 32, 115, 105, 122, 101, 32>>   \* "* BYE [ALERT] Max literal size "
    \o SizeDigits
    \o <<32, 105, 115, 32, 108, 97, 114, 103, 101, 114, 32, 116, 104, 97, 110, 32, 97, 108, 108, 111, 119, 101, 100, 32>>   \* " is larger than allowed "
    \o Decimal(LastMaxSize)
    \o <<32, 105, 110, 32, 116, 104, 105, 115, 32, 99, 111, 110, 116, 101, 120, 116>>   \* " in this context"

\* C1: when maxSize > 0 and the size N of the header is greater than
\* maxSize, xliteralSize (and xstring, xastring and xnilString, whose
\* maxSize is 100*1024) fails with a syntax error of code TOOBIG, with the
\* line "* BYE [ALERT] Max literal size N is larger than allowed maxSize in
\* this context", and the transport is not called; a size N <= maxSize, or
\* any size when maxSize <= 0, never gives TOOBIG.
C1_TooBig ==
    ret.op \in LiteralOps =>
      IF /\ SizeParsed
         /\ LastMaxSize > 0
         /\ DecimalGreater(SizeDigits, Decimal(LastMaxSize))
      THEN /\ ~ret.ok
           /\ ret.err.kind = "syntax"
           /\ ret.err.code = "TOOBIG"
           /\ ret.err.line = ExpectedTooBigLine
           /\ p.conn = ret.pre.conn
      ELSE ret.err.code # "TOOBIG"

\* xstring was given a literal of 102401 octets while the transport had
\* bytes to read, and it failed with TOOBIG.
C1_Witness ==
    /\ ret.op = "xstring"
    /\ ret.err.code = "TOOBIG"
    /\ SizeDigits = <<49, 48, 50, 52, 48, 49>>   \* "102401"
    /\ Len(ret.pre.conn.wire) > 0

\* The offset of "{" when a "~" may come before it.
BraceAfterTilde ==
    IF ret.pre.o < Len(ret.pre.orig) /\ ret.pre.orig[ret.pre.o + 1] = ch.tilde
    THEN ret.pre.o + 1
    ELSE ret.pre.o

\* From offset i on, the line s is exactly "{" digits ["+"] "}".
HeaderEndsLine(s, i) ==
    /\ i + 3 <= Len(s)
    /\ s[i + 1] = ch.lbrace
    /\ s[Len(s)] = ch.rbrace
    /\ DigitRunLen(s, i + 1) > 0
    /\ \/ i + 1 + DigitRunLen(s, i + 1) = Len(s) - 1
       \/ /\ i + 1 + DigitRunLen(s, i + 1) = Len(s) - 2
          /\ s[Len(s) - 1] = ch.plus

\* The header that ends the line s has a "+".
HeaderHasPlus(s) == s[Len(s) - 1] = ch.plus

\* The size in the header of s at offset i, a number of at most six digits.
HeaderSize(s, i) == DecimalValue(StripZeros(DigitRun(s, i + 1)))

HeaderSizeSmall(s, i) == Len(StripZeros(DigitRun(s, i + 1))) <= 6

\* The calls the last operation made on the transport.
NewCalls ==
    SubSeq(p.conn.calls, Len(ret.pre.conn.calls) + 1, Len(p.conn.calls))

\* C2: for a literal header {N} or {N+}, with or without "~" before it,
\* that ends the line, with N within the maximum, xstring and xastring ask
\* the transport for exactly N octets, return those octets, read one more
\* line, and the parser is at offset 0 of that line.  (The transport has
\* the N octets and a line after them.)
C2_LiteralOctets ==
    ( /\ ret.op \in {"xstring", "xastring"}
      /\ HeaderEndsLine(ret.pre.orig, BraceAfterTilde)
      /\ HeaderSizeSmall(ret.pre.orig, BraceAfterTilde)
      /\ HeaderSize(ret.pre.orig, BraceAfterTilde) <= maxLiteralSize
      /\ HeaderSize(ret.pre.orig, BraceAfterTilde) <= Len(ret.pre.conn.wire)
      /\ HasLine(From(ret.pre.conn.wire, HeaderSize(ret.pre.orig, BraceAfterTilde))) )
    => /\ ret.ok
       /\ ret.v = Slice(ret.pre.conn.wire, 0, HeaderSize(ret.pre.orig, BraceAfterTilde))
       /\ Len(NewCalls) = 2
       /\ NewCalls[1].op = "xreadliteral"
       /\ NewCalls[1].size = NumOf(HeaderSize(ret.pre.orig, BraceAfterTilde))
       /\ NewCalls[2].op = "readline"
       /\ NewCalls[2].unread = Len(ret.pre.conn.wire)
                               - HeaderSize(ret.pre.orig, BraceAfterTilde)
       /\ p.orig = FirstLine(From(ret.pre.conn.wire,
                                  HeaderSize(ret.pre.orig, BraceAfterTilde)))
       /\ p.o = 0

\* C3: when xstring parses a literal, read-literal is called with sync =
\* TRUE exactly when the header has no "+", so that a prompt is sent exactly
\* for a synchronising literal; the transport is called only when the
\* header ends the line; and the octets are read before the next line.
C3_SyncAndOrder ==
    ret.op \in LiteralOps =>
      /\ SubSeq(p.conn.calls, 1, Len(ret.pre.conn.calls)) = ret.pre.conn.calls
      /\ NewCalls = <<>> => p.conn = ret.pre.conn
      /\ NewCalls # <<>> =>
           /\ ret.op # "xliteralSize"
           /\ HeaderEndsLine(ret.pre.orig, ret.pre.o)
           /\ NewCalls[1].op = "xreadliteral"
           /\ NewCalls[1].sync = ~HeaderHasPlus(ret.pre.orig)
           /\ NewCalls[1].size = NumOf(HeaderSize(ret.pre.orig, ret.pre.o))
           /\ p.conn.prompts = ret.pre.conn.prompts
                               + (IF HeaderHasPlus(ret.pre.orig) THEN 0 ELSE 1)
           /\ Len(NewCalls) <= 2
           /\ Len(NewCalls) = 2 => NewCalls[2].op = "readline"
           /\ ret.ok => Len(NewCalls) = 2

\* xstring read a synchronising literal and then the next line.
C3_Witness ==
    /\ ret.op = "xstring"
    /\ ret.ok
    /\ Len(NewCalls) = 2
    /\ NewCalls[1].sync
    /\ p.conn.prompts = ret.pre.conn.prompts + 1
    /\ ret.v # <<>>

\* What a quoted string stands for: the bytes of s from offset i on up to
\* the first double quote that is not escaped, with backslash-backslash
\* for a backslash and backslash-dquote for a double quote; r is the value
\* so far.  ok is FALSE on another escape, on NUL, CR or LF, and when no
\* closing quote is found.
RECURSIVE Unquote(_, _, _)
Unquote(s, i, r) ==
    IF i >= Len(s) THEN [ok |-> FALSE, o |-> i, v |-> <<>>]
    ELSE IF s[i + 1] \in {ch.nul, ch.cr, ch.lf}
         THEN [ok |-> FALSE, o |-> i, v |-> <<>>]
    ELSE IF s[i + 1] = ch.bslash
         THEN IF i + 1 < Len(s) /\ s[i + 2] \in {ch.bslash, ch.dquote}
              THEN Unquote(s, i + 2, Append(r, s[i + 2]))
              ELSE [ok |-> FALSE, o |-> i, v |-> <<>>]
    ELSE IF s[i + 1] = ch.dquote THEN [ok |-> TRUE, o |-> i + 1, v |-> r]
    ELSE Unquote(s, i + 1, Append(r, s[i + 1]))

\* The last operation was given a quoted string.
QuotedGiven ==
    /\ ret.pre.o < Len(ret.pre.orig)
    /\ ret.pre.orig[ret.pre.o + 1] = ch.dquote

\* C4: for a quoted string, xstring returns the bytes between the opening
\* and the first unescaped closing double quote, each backslash-backslash
\* giving one backslash and each backslash-dquote one double quote, and
\* leaves the offset just past the closing quote; any other escape, a NUL,
\* CR or LF, or a missing closing quote fails with a syntax error.
C4_Quoted ==
    (ret.op = "xstring" /\ QuotedGiven) =>
      /\ ret.ok = Unquote(ret.pre.orig, ret.pre.o + 1, <<>>).ok
      /\ ret.ok =>
           /\ ret.v = Unquote(ret.pre.orig, ret.pre.o + 1, <<>>).v
           /\ p.o = Unquote(ret.pre.orig, ret.pre.o + 1, <<>>).o
      /\ ~ret.ok => ret.err.kind = "syntax"

\* C4 for the strings that have no backslash and are made of ASCII bytes.
C4_QuotedPlain ==
    ( /\ ret.op = "xstring"
      /\ QuotedGiven
      /\ \A i \in 1..Len(ret.pre.orig) :
           ret.pre.orig[i] # ch.bslash /\ ret.pre.orig[i] < 128 )
    => /\ ret.ok = Unquote(ret.pre.orig, ret.pre.o + 1, <<>>).ok
       /\ ret.ok =>
            /\ ret.v = Unquote(ret.pre.orig, ret.pre.o + 1, <<>>).v
            /\ p.o = Unquote(ret.pre.orig, ret.pre.o + 1, <<>>).o
       /\ ~ret.ok => ret.err.kind = "syntax"

\* s upper and lower cased are parsers over the same connection, at the
\* offset of q.
Recased(q, s) == [newParser(s, q.conn) EXCEPT !.o = q.o]

\* The last operation was given a line that is "\" and atom bytes.
FlagGiven ==
    /\ ret.pre.o = 0
    /\ Len(ret.pre.orig) > 0
    /\ ret.pre.orig[1] = ch.bslash
    /\ \A i \in 2..Len(ret.pre.orig) : ret.pre.orig[i] \in atomChar

\* C5: xflag fails for a flag with a backslash whose lower-cased name is
\* none of \answered, \flagged, \deleted, \seen, \draft, and for those
\* five every casing succeeds with the same value.
C5_FlagCasings ==
    (ret.op = "xflag" /\ FlagGiven) =>
      IF ToLower(ret.pre.orig) \in systemFlags
      THEN /\ ret.ok
           /\ \A l \in Casings(ret.pre.orig) :
                xflag(newParser(l, ret.pre.conn)).v = ret.v
      ELSE ~ret.ok

\* The part of C5 that is about which flags are accepted.
C5_FlagKnown ==
    (ret.op = "xflag" /\ FlagGiven) =>
      (ret.ok <=> ToLower(ret.pre.orig) \in systemFlags)

\* C6: xcommand on the lower-cased bytes returns the same name as on the
\* upper-cased bytes, which is the name in upper case A-Z (with the space
\* of the UID form).
C6_CommandCase ==
    (ret.op = "xcommand" /\ ret.ok /\ ret.pre.o = 0) =>
      /\ ret.v = xcommand(Recased(ret.pre, toUpper(ret.pre.orig))).v
      /\ ret.v = xcommand(Recased(ret.pre, ToLower(ret.pre.orig))).v
      /\ \A i \in 1..Len(ret.v) : ret.v[i] \in (ch.A .. ch.Z) \cup {ch.sp}

\* The part of C6 that is about how much is consumed.
C6_CommandLength ==
    (ret.op = "xcommand" /\ ret.ok /\ ret.pre.o = 0) =>
      /\ toUpper(ret.v) = xcommand(Recased(ret.pre, toUpper(ret.pre.orig))).v
      /\ toUpper(ret.v) = toUpper(xcommand(Recased(ret.pre, ToLower(ret.pre.orig))).v)

\* The predicates of the parser: they answer and do not raise.
Predicates == {"take", "takelist", "space", "nznumber", "number", "digit"}

\* The digits the last operation was given.
DigitsGiven == DigitRun(ret.pre.upper, ret.pre.o)

\* C7 (as the parser has it): for every predicate (take, takelist, space,
\* nznumber, number, digit) a false result leaves the offset and both views
\* of the line unchanged; nznumber on digits that are zero or overflow 32
\* bits, and number on digits that overflow 32 bits, return false without
\* advancing.
C7_NoProgressOnFailure ==
    /\ (ret.op \in Predicates /\ ~ret.ok) => p = ret.pre
    /\ ( /\ ret.op = "nznumber"
         /\ DigitsGiven # <<>>
         /\ \/ StripZeros(DigitsGiven) = <<ch.d0>>
            \/ DecimalGreater(StripZeros(DigitsGiven), <<52, 50, 57, 52, 57, 54, 55, 50, 57, 53>>) )   \* "4294967295"
       => ~ret.ok /\ p = ret.pre
    /\ ( /\ ret.op = "number"
         /\ DigitsGiven # <<>>
         /\ DecimalGreater(StripZeros(DigitsGiven), <<52, 50, 57, 52, 57, 54, 55, 50, 57, 53>>) )   \* "4294967295"
       => ~ret.ok /\ p = ret.pre

\* nznumber was given digits that overflow 32 bits and returned false.
C7_Witness ==
    /\ ret.op = "nznumber"
    /\ ~ret.ok
    /\ DigitsGiven = <<52, 50, 57, 52, 57, 54, 55, 50, 57, 54>>   \* "4294967296"

\* C7 as stated, with xnilString for nilString: a failed result leaves
\* the offset unchanged.
C7_WithNilString ==
    (ret.op \in Predicates \cup {"xnilString"} /\ ~ret.ok) =>
      /\ p.o = ret.pre.o
      /\ p.orig = ret.pre.orig
      /\ p.upper = ret.pre.upper

\* The words of the list l that the bytes s start with.
Matches(l, s) == { w \in Words(l) : HasPrefix(s, w) }

\* The longest of them.
Longest(l, s) ==
    CHOOSE w \in Matches(l, s) : \A x \in Matches(l, s) : Len(x) <= Len(w)

\* What the last operation was given, in upper case.
UpperGiven == From(ret.pre.upper, ret.pre.o)

\* C8: for each keyword list of the parser, the word takelist consumes is
\* the longest word of the list that the input starts with.  xfetchAtt
\* gives the field without .PEEK and peek = TRUE exactly when the longest
\* word ends in .PEEK: BODY.PEEK[...] is BODY with peek, BODY[...] is BODY
\* without, BODYSTRUCTURE is never BODY.
C8_LongestKeyword ==
    /\ (ret.op = "takelist" /\ ret.arg \in KeywordLists) =>
         /\ ret.ok <=> Matches(ret.arg, UpperGiven) # {}
         /\ ret.ok =>
              /\ ret.v = Longest(ret.arg, UpperGiven)
              /\ p.o = ret.pre.o + Len(ret.v)
    /\ (ret.op = "xfetchAtt" /\ ret.ok) =>
         /\ Matches(fetchAttWords, UpperGiven) # {}
         /\ ret.v.field = TrimSuffix(Longest(fetchAttWords, UpperGiven), kwDotPEEK)
         /\ ret.v.peek = HasSuffix(Longest(fetchAttWords, UpperGiven), kwDotPEEK)
         /\ HasPrefix(UpperGiven, <<66, 79, 68, 89, 83, 84, 82, 85, 67, 84, 85, 82, 69>>) => ret.v.field = <<66, 79, 68, 89, 83, 84, 82, 85, 67, 84, 85, 82, 69>>   \* "BODYSTRUCTURE" "BODYSTRUCTURE"
         /\ HasPrefix(UpperGiven, <<66, 79, 68, 89, 91>>) => ret.v.field = kwBODY /\ ~ret.v.peek   \* "BODY["
         /\ HasPrefix(UpperGiven, <<66, 79, 68, 89, 46, 80, 69, 69, 75, 91>>) => ret.v.field = kwBODY /\ ret.v.peek   \* "BODY.PEEK["
    /\ (ret.op = "xfetchAtt" /\ ~ret.ok /\ Matches(fetchAttWords, UpperGiven) # {}) =>
         TrimSuffix(Longest(fetchAttWords, UpperGiven), kwDotPEEK)
           \in {kwBODY, kwBINARY, kwBINARY_SIZE}
    /\ (ret.op = "xsectionMsgtext" /\ ret.ok) =>
         ret.v.s = Longest(msgtextWords, UpperGiven)
    /\ (ret.op = "xstatusAtt" /\ ret.ok) =>
         ret.v = Longest(statusAttWords, UpperGiven)
    /\ (ret.op = "xsearchKey" /\ ret.ok /\ Matches(searchKeyWords, UpperGiven) # {}) =>
         ret.v.op = Longest(searchKeyWords, UpperGiven)

\* xfetchAtt was given BODY.PEEK and a section, and returned BODY with peek.
C8_Witness ==
    /\ ret.op = "xfetchAtt"
    /\ ret.ok
    /\ HasPrefix(UpperGiven, <<66, 79, 68, 89, 46, 80, 69, 69, 75, 91>>)   \* "BODY.PEEK["
    /\ ret.v.field = kwBODY
    /\ ret.v.peek
    /\ ret.v.section # Nil

\* upper is orig with a-z upper cased.
UpperOf(q) ==
    /\ Len(q.orig) = Len(q.upper)
    /\ \A i \in 1..Len(q.orig) :
         q.upper[i] = IF q.orig[i] \in ch.a .. ch.z THEN q.orig[i] - 32
                      ELSE q.orig[i]

\* C9: in every state of the parser, also after it has moved to the line
\* that follows a literal, orig and upper have the same length, and upper[i]
\* is orig[i] when that is not in a-z and orig[i] - 0x20 when it is.
C9_UpperView == UpperOf(p) /\ UpperOf(ret.pre)

\* The parser has moved to a line after a literal, and the line has a lower
\* case letter and bytes above "z".
C9_Witness ==
    /\ ret.op = "xstring"
    /\ ret.ok
    /\ Len(NewCalls) = 2
    /\ p.o = 0
    /\ \E i \in 1..Len(p.orig) : p.orig[i] \in ch.a .. ch.z
    /\ \E i \in 1..Len(p.orig) : p.orig[i] > ch.z

\* C10: for a NumSet that is the searchResult marker or a non-empty list
\* of ranges with endpoints "*" or a number in 1..2^32-1, xnumSet on its
\* text succeeds, consumes the text, and returns an equal value, the ranges
\* in the same order.
C10_RoundTrip ==
    (ret.op = "xnumSet" /\ ret.pre.o = 0 /\ given.tail \in {<<>>, <<ch.sp>>}) =>
      /\ ret.ok
      /\ ret.v = given.set
      /\ p.o = Len(Render(given.set))
      /\ given.tail = <<>> => empty(p)

\* xnumSet was given two ranges, of the largest number and a star, and the
\* text is consumed.
C10_Witness ==
    /\ ret.op = "xnumSet"
    /\ ret.ok
    /\ given.tail = <<>>
    /\ empty(p)
    /\ Len(ret.v.ranges) >= 2
    /\ ret.v.ranges[1].first = setNumber(MaxUint32, FALSE)
    /\ ret.v.ranges[1].last = Ptr(setNumber(Zero, TRUE))
    /\ ret.v.ranges[2].last = Nil

\* C11: xtaggedExtSimple accepts a digit run that fits a signed 64-bit
\* integer, with ":*" or ":nz-number" and ",numRange" items after it; and,
\* when there is no digit run, a numSet such as "$" or "*:5": it succeeds
\* and has consumed the value.
C11_TaggedExtSimple ==
    (ret.op = "xtaggedExtSimple" /\ ret.pre.o = 0 /\ given.valid) =>
      /\ ret.ok
      /\ empty(p)

\* The part of C11 that is about a value that starts with a digit run.
C11_DigitRun ==
    (ret.op = "xtaggedExtSimple" /\ ret.pre.o = 0 /\ given.form = "digits") =>
      /\ ret.ok = given.valid
      /\ ret.ok => empty(p)

\* The same numSet is accepted by xnumSet.
C11_NumSetAlone ==
    (ret.op = "xnumSet" /\ ret.pre.o = 0 /\ given.form = "numSet") =>
      ret.ok /\ empty(p)

\* The line the last operation was given is a sign and four decimal digits.
ZoneGiven ==
    /\ ret.pre.o + 5 <= Len(ret.pre.orig)
    /\ ret.pre.orig[ret.pre.o + 1] \in {ch.plus, ch.minus}
    /\ \A i \in 2..5 : IsDigit(ret.pre.orig[ret.pre.o + i])

\* The four digits as a number.
ZoneDigits == DecimalValue(Slice(ret.pre.orig, ret.pre.o + 1, ret.pre.o + 5))

\* The seconds of the zone: (d/100)*3600 + (d%100)*60, negated for "-".
ZoneSeconds ==
    IF ret.pre.orig[ret.pre.o + 1] = ch.minus
    THEN 0 - ((ZoneDigits \div 100) * 3600 + (ZoneDigits % 100) * 60)
    ELSE (ZoneDigits \div 100) * 3600 + (ZoneDigits % 100) * 60

\* C12: xzone succeeds only on "+" or "-" and exactly four decimal digits
\* d, and then returns (d/100)*3600 + (d%100)*60 seconds, negated for "-",
\* with the label sign+digits; a field of four bytes that is not four
\* digits, such as one that starts with "+" or "-", is a syntax error.
C12_Zone ==
    ret.op = "xzone" =>
      /\ ret.ok <=> ZoneGiven
      /\ ret.ok =>
           /\ ret.v.seconds = ZoneSeconds
           /\ ret.v.name = Slice(ret.pre.orig, ret.pre.o, ret.pre.o + 5)
           /\ p.o = ret.pre.o + 5
      /\ ~ret.ok => ret.err.kind = "syntax"

\* The part of C12 that is about a sign and four digits.
C12_ZoneOfDigits ==
    (ret.op = "xzone" /\ ZoneGiven) =>
      /\ ret.ok
      /\ ret.v.seconds = ZoneSeconds
      /\ ret.v.name = Slice(ret.pre.orig, ret.pre.o, ret.pre.o + 5)
      /\ p.o = ret.pre.o + 5

\* s is a non-empty run of the letters A-Z.
LetterRun(s) == s # <<>> /\ \A i \in 1..Len(s) : s[i] \in ch.A .. ch.Z

\* s is a command name: a non-empty run of letters, or UID, one space and a
\* non-empty run of letters.
CommandName(s) ==
    \/ LetterRun(s)
    \/ /\ HasPrefix(s, kwUID \o <<ch.sp>>)
       /\ LetterRun(From(s, 4))

\* The last operation was given a letter.
LetterGiven ==
    /\ ret.pre.o < Len(ret.pre.upper)
    /\ ret.pre.upper[ret.pre.o + 1] \in ch.A .. ch.Z

\* C13: the name xcommand returns is a non-empty run of letters, or UID,
\* exactly one space and a non-empty run of letters (in either case of the
\* letters); and xcommand fails with a syntax error when it can consume no
\* letter, also when nothing remains of the line.
C13_CommandName ==
    ret.op = "xcommand" =>
      /\ ret.ok => CommandName(toUpper(ret.v))
      /\ ~LetterGiven => ~ret.ok /\ ret.err.kind = "syntax"

\* The part of C13 that is about the space: the name has at most one
\* space, after the three letters UID; and xcommand fails on a byte that is
\* no letter.
C13_SpaceAfterUID ==
    ret.op = "xcommand" =>
      /\ ret.ok =>
           /\ \A i \in 1..Len(ret.v) :
                \/ toUpper(ret.v)[i] \in ch.A .. ch.Z
                \/ ret.v[i] = ch.sp /\ i = 4 /\ Slice(toUpper(ret.v), 0, 3) = kwUID
           /\ p.o = ret.pre.o + Len(ret.v)
      /\ (~LetterGiven /\ ~empty(ret.pre)) => ~ret.ok /\ ret.err.kind = "syntax"

\* The wire as it was when the last operation made its i-th call.
WireAt(i) ==
    From(ret.pre.conn.wire, Len(ret.pre.conn.wire) - NewCalls[i].unread)

\* The calls of the last operation that read a line and got one.
LinesRead ==
    { i \in 1..Len(NewCalls) : NewCalls[i].op = "readline" /\ HasLine(WireAt(i)) }

\* The operations that are xstring or reach it.
StringOps ==
    {"xstring", "xastring", "xnilString", "xmailbox", "xflagList", "xmboxOrPat",
     "xsectionMsgtext", "xsection", "xfetchAtt", "xfetchAtts", "xsearchKey",
     "xtaggedExtComp", "xtaggedExtVal"}

\* C14: in every state 0 <= o <= len(orig); an operation that reads no
\* line keeps the line and does not decrease o, whether it succeeds or
\* fails; the line changes only in an operation that reaches xstring and
\* reads a line after a literal, and xstring then leaves o at 0 on that
\* line.
C14_Offset ==
    /\ p.o \in 0..Len(p.orig)
    /\ Len(p.upper) = Len(p.orig)
    /\ LinesRead = {} =>
         /\ p.orig = ret.pre.orig
         /\ p.upper = ret.pre.upper
         /\ p.o >= ret.pre.o
    /\ LinesRead # {} =>
         /\ ret.op \in StringOps
         /\ \E i \in LinesRead :
              /\ \A j \in LinesRead : j <= i
              /\ p.orig = FirstLine(WireAt(i))
         /\ ret.op \in {"xstring", "xastring", "xnilString", "xmailbox"} =>
              /\ Cardinality(LinesRead) = 1
              /\ p.o = 0

\* xstring, after the parser had advanced in its line, read a literal and
\* the line after it, and the offset is back at 0.
C14_Witness ==
    /\ ret.op = "xstring"
    /\ ret.ok
    /\ ret.pre.o > 0
    /\ LinesRead # {}
    /\ p.o = 0
    /\ p.orig # ret.pre.orig
    /\ p.orig # <<>>

\* An operation failed in the middle of a line after it had advanced.
C14_WitnessFailed ==
    /\ ~ret.ok
    /\ p.o > ret.pre.o
    /\ ret.pre.o > 0
    /\ p.o < Len(p.orig)

\* The entry point that was called has returned or has raised.
Done == ret.op \in EntryPoints /\ stack = <<>>

\* The entry point of the last call, run as a whole.
Whole(fn, q) ==
    CASE fn = "xflagList" -> xflagList(q)
      [] fn = "xmboxOrPat" -> xmboxOrPat(q)
      [] fn = "xsectionMsgtext" -> xsectionMsgtext(q)
      [] fn = "xfetchAtts" -> xfetchAtts(q)
      [] fn = "xnumSet" -> xnumSet(q)
      [] fn = "xsearchKey" -> xsearchKey(q)
      [] fn = "xtaggedExtComp" -> xtaggedExtComp(q)

\* Run step by step, an entry point ends as it does run as a whole.
StepsAgree ==
    Done => /\ p = Whole(ret.op, ret.pre).p
            /\ ret.err = Whole(ret.op, ret.pre).err
            /\ ret.ok = ~Failed(Whole(ret.op, ret.pre))

\* Each iteration of a loop, each recursive call that has returned, and
\* the entry point when it has returned, has consumed at least one byte.
Progress ==
    /\ stack # <<>> =>
         /\ (Top.pc \in LoopHeads /\ Top.it >= 0) => Measure(p) < Top.it
         /\ Top.back => Measure(p) < Top.sub
         /\ Measure(p) <= Top.at
         /\ \A i \in 1..(Len(stack) - 1) :
              stack[i].sub = stack[i + 1].at /\ stack[i].sub < stack[i].at
    /\ (Done /\ ret.ok) => Measure(p) < Measure(ret.pre)

\* C15: every entry point terminates, with a value or with an error: each
\* iteration of the loops of xflagList, xmboxOrPat, xsectionMsgtext,
\* xfetchAtts, xnumSet, of the group of xsearchKey and of xtaggedExtComp,
\* and each recursive call of xsearchKey and xtaggedExtComp, consumes at
\* least one byte of the line or of the wire, or fails.
C15_Termination == [](Progress /\ StepsAgree) /\ <>Done

\* xsearchKey is in a recursive call, in the second iteration or a later
\* one of the loop of a group, after a key of that group has returned.
C15_Witness ==
    /\ Len(stack) >= 2
    /\ Top.fn = "xsearchKey"
    /\ Top.pc = "group"
    /\ Top.it >= 0
    /\ Top.back

====
